---- MODULE Spec2Model ----
(***************************************************************************)
(* Model of the MPCM service registry (mpcm-core/src/registry/mod.rs) and  *)
(* of the request router built on it (mpcm-core/src/registry/router.rs).   *)
(*                                                                         *)
(* The registry keeps two independently locked maps: `services` (name ->  *)
(* provider handle) and `metadata` (name -> ServiceRegistration).  Every  *)
(* action below is one critical section of one registry method, or one    *)
(* awaited provider call made between two critical sections; concurrent   *)
(* callers (Procs) interleave at exactly those points.  `ret` is the      *)
(* response handed back by the step just taken (NoRet when the step       *)
(* returned nothing).  The router's route_request is a sequence of        *)
(* registry calls; `reply` is what it returned in the step just taken.    *)
(*                                                                         *)
(* The two protocol servers (mpcm-server/src/server.rs with handlers.rs,   *)
(* and server_v2.rs with handlers_v2.rs) are modelled by one accept loop   *)
(* and one handler task per connection; `variant` tells which binary runs. *)
(* A handler step is one await of handle_connection: a read that yields a  *)
(* line and its response, or the write of that response.                   *)
(***************************************************************************)
EXTENDS Integers, Sequences, FiniteSets, TLC

\* ---------------------------------------------------------------- bounds
MaxInst == 2
MaxTime == 0

\* The server's max_connections, the number of lines one client sends, and
\* MAX_MESSAGE_SIZE counted in units instead of bytes.
MaxConnections == 2
MaxLines == 2
MAX_MESSAGE_SIZE == 2

Procs == {1, 2}
Times == 0..MaxTime
Names == {"a", "b"}
CapNames == {"echo", "deploy"}
CapLists == {<<>>, <<"echo">>, <<"echo", "deploy">>}
ErrTexts == {"e1", "e2"}
NoName == "-"

\* ---------------------------------------------------------------- helpers
None == <<>>
Some(x) == <<x>>

Put(f, k, v) == [x \in (DOMAIN f) \cup {k} |-> IF x = k THEN v ELSE f[x]]
Del(f, k) == [x \in (DOMAIN f) \ {k} |-> f[x]]
EmptyMap == [x \in {} |-> 0]

Range(s) == {s[i] : i \in DOMAIN s}
Perms(S) == {s \in [1..Cardinality(S) -> S] : Range(s) = S}

\* anyhow errors: a message; Display (to_string) renders the message text.
ProviderError(e) == [msg |-> <<e>>]
ProviderErrors == {ProviderError(e) : e \in ErrTexts}
AlreadyRegistered(n) == [msg |-> <<"Service", n, "is already registered">>]
NotFound(n) == [msg |-> <<"Service", n, "not found">>]
to_string(e) == e.msg

\* ServiceStatus
Active == "Active"
Inactive == "Inactive"
Error == "Error"
ServiceStatus == {Active, Inactive, Error}

\* Outcome of one awaited provider call: Ok(result) or Err(e).
CallOk(success) == [ok |-> TRUE, success |-> success, err |-> None]
CallErr(e) == [ok |-> FALSE, success |-> FALSE, err |-> Some(e)]
ExecOutcomes(E) == {CallOk(TRUE), CallOk(FALSE)} \cup {CallErr(e) : e \in E}
UnitOutcomes(E) == {CallOk(TRUE)} \cup {CallErr(e) : e \in E}

\* ---------------------------------------------------------------- wire protocol
\* JSON-RPC error codes
PARSE_ERROR == -32700
INVALID_REQUEST == -32600
METHOD_NOT_FOUND == -32601
INTERNAL_ERROR == -32603

\* The "id" member of a JSON message: left out, null, or a string.
Absent == [t |-> "absent", s |-> ""]
Null == [t |-> "null", s |-> ""]
Str(x) == [t |-> "string", s |-> x]

\* The two server binaries: server.rs with handlers.rs, server_v2.rs with
\* handlers_v2.rs.
V1 == "server"
V2 == "server_v2"

\* match method { .. } of handle_request
MethodTable(v) ==
    {"store_context", "search_context", "get_project_context", "list_projects"}
        \cup (IF v = V1 THEN {"store_project_context"} ELSE {"update_project_status"})

\* A line a client sends: `json` tells that it is a JSON object with a string
\* "method" and a "params" member, `id` is its "id" member, `len` the number
\* of bytes read_line returns for it.
Line(json, id, method, len) == [json |-> json, id |-> id, method |-> method, len |-> len]
Garbage(len) == Line(FALSE, Absent, "", len)

\* serde_json::from_str::<ServiceRequest>: id is a String, so it must be there.
ParsesV1(line) == line.json /\ line.id.t = "string"

\* A parser that takes every line for a request.
ParsesAnything(line) == TRUE

\* serde_json::from_str::<Request>: id is an Option<String>.
ParsesV2(line) == line.json

\* request.id as the Option<String> of Request
RequestIdV2(line) == IF line.id.t = "string" THEN Some(line.id.s) ELSE None

\* #[serde(skip_serializing_if = "Option::is_none")] id: Option<String>
WireIdV2(id) == IF id = None THEN Absent ELSE Str(id[1])

\* A response line: its "id" member and either a result or an error.
Success(id) == [id |-> id, code |-> 0, message |-> <<>>]
Failure(id, code, message) == [id |-> id, code |-> code, message |-> message]

\* The errors the storage layer hands to a handler.
StorageErrors ==
    {[msg |-> <<"Project", "not found", ":", "p">>], [msg |-> <<"database is locked">>]}

\* e.to_string().contains("not found")
ContainsNotFound(msg) == \E k \in DOMAIN msg : msg[k] = "not found"

\* handlers::handle_request (server.rs): the JSON-RPC response for a parsed
\* request, turned into a ServiceResponse; o is the outcome of the method's
\* handler.
RespondV1(line, o) ==
    IF ~ParsesV1(line)
    THEN Failure(Str(""), PARSE_ERROR, <<"Parse error">>)
    ELSE IF line.method \notin MethodTable(V1)
    THEN Failure(line.id, METHOD_NOT_FOUND, <<"Method", "'", line.method, "'", "not found">>)
    ELSE IF o.ok THEN Success(line.id)
    ELSE Failure(line.id, INTERNAL_ERROR, to_string(o.err[1]))

\* handlers_v2::handle_request: the error for a method outside the table.
MethodNotFoundV2(method) == [msg |-> <<"Method", "not found", ":", method>>]

\* process_request (server_v2.rs); o is the outcome of the method's handler.
RespondV2(line, o) ==
    IF ~ParsesV2(line)
    THEN Failure(Absent, PARSE_ERROR, <<"Parse error", ":", "serde">>)
    ELSE LET request_id == RequestIdV2(line)
             r == IF line.method \in MethodTable(V2) THEN o
                  ELSE CallErr(MethodNotFoundV2(line.method))
         IN IF r.ok THEN Success(WireIdV2(request_id))
            ELSE IF ContainsNotFound(to_string(r.err[1]))
            THEN Failure(WireIdV2(request_id), METHOD_NOT_FOUND, to_string(r.err[1]))
            ELSE Failure(WireIdV2(request_id), INTERNAL_ERROR, to_string(r.err[1]))

\* The responses server.rs sends for a line that is too long and for a read
\* that timed out.
TooLarge == Failure(Str(""), INVALID_REQUEST, <<"Invalid request">>)
TimedOut == Failure(Str(""), INTERNAL_ERROR, <<"Internal error", ":", "Request timeout">>)

\* RoutingStrategy; Mapped is the route taken through a tool_mappings entry.
FirstMatch == "FirstMatch"
Broadcast == "Broadcast"
Direct == "Direct"
RoutingStrategy == {FirstMatch, Broadcast, Direct}
Mapped == "Mapped"

\* The tools a ToolRequest can name.
Tools == CapNames

\* The state of the registry (services, metadata; nextInst numbers the boxed
\* providers handed to register), of its callers (pc, loc, interfered, ret) and
\* of the router (tool_mappings, default_strategy; route, reply for its callers).
VARIABLES services, metadata, nextInst, pc, loc, interfered, ret,
          tool_mappings, default_strategy, route, reply

\* The state of the connection server: which binary runs (variant), its accept
\* loop and the socket's backlog (listener), the permits left in the connection
\* semaphore, and every client connection with its handler task (conn).
VARIABLES variant, listener, semaphore, conn

vars == <<services, metadata, nextInst, pc, loc, interfered, ret,
          tool_mappings, default_strategy, route, reply,
          variant, listener, semaphore, conn>>

server == <<variant, listener, semaphore, conn>>

registry == <<services, metadata, nextInst, pc, loc, interfered>>

\* ---------------------------------------------------------------- locals
\* A caller's frame: the method it is in and that method's local variables
\* (inst 0: no provider handle).  `out` is the outcome of the provider method
\* awaited last and `calls` counts the provider methods awaited so far.
NoLoc ==
    [op |-> "none", name |-> NoName, inst |-> 0, caps |-> <<>>,
     out |-> CallOk(TRUE), snap |-> EmptyMap, results |-> EmptyMap, calls |-> 0]

Frame(o, n) == [NoLoc EXCEPT !.op = o, !.name = n]

\* A response: who got it, from which method, the frame it ended with, and the
\* returned Result<..> (kind ok/err with the payload of the method's type).
\* `clean` tells that no mutating call on the same name overlapped this one;
\* `prev` is the status the call's Registration update replaced, if it made one.
NoRet ==
    [proc |-> 0, frame |-> NoLoc, kind |-> "none", err |-> None,
     handle |-> 0, names |-> <<>>, regs |-> {}, success |-> FALSE,
     health |-> EmptyMap, clean |-> FALSE, prev |-> None]

\* A caller's route_request frame: how the request is dispatched (op), its tool,
\* the names find_by_capability returned (or the mapped name), how many of them
\* have been executed on (i), and route_broadcast's three accumulators.
\* `trace` lists, per registry.execute call made, its name, its response and
\* whether the provider's execute was reached.
NoRoute ==
    [op |-> "none", tool |-> NoName, services |-> <<>>, i |-> 0,
     all_results |-> <<>>, any_success |-> FALSE, errors |-> <<>>, trace |-> <<>>]

\* What route_request returned in the step just taken: Err(err) or Ok(ServiceResult)
\* with success, data {results, errors}, error and metadata {routing_strategy,
\* services_called} (strategy None: the metadata of the provider's own result).
NoReply ==
    [proc |-> 0, route |-> NoRoute, kind |-> "none", err |-> None,
     success |-> FALSE, results |-> <<>>, errors |-> <<>>, error |-> None,
     strategy |-> None, services_called |-> 0]

\* The client connections.
Conns == 1..(MaxConnections + 1)

\* A connection: where it is (st: unconnected, backlog, accepted, open, ended),
\* the lines the client has sent that are still unread (input), whether the
\* client has shut its end down (eof), the lines the handler has read (got),
\* the response lines it has written (output), the handler's position (hpc),
\* the response it is about to write (pending), whether it returns after that
\* write (last), and how it ended (how).
NoConn ==
    [st |-> "unconnected", input |-> <<>>, eof |-> FALSE, got |-> <<>>,
     output |-> <<>>, hpc |-> "none", pending |-> None, last |-> FALSE,
     how |-> "none"]

\* run_server at its first accept: pc is the accept loop's position (accept,
\* acquire, returned), stream the connection it has accepted and not yet
\* spawned a handler for (0: none), backlog the connections waiting in the
\* socket's queue.
Listening == [pc |-> "accept", stream |-> 0, backlog |-> <<>>]

\* The binary v has bound its socket and no client has connected yet.
Started(v) ==
    /\ variant = v
    /\ listener = Listening
    /\ semaphore = MaxConnections
    /\ conn = [c \in Conns |-> NoConn]

Init ==
    /\ Started(V2)
    /\ tool_mappings = EmptyMap
    /\ default_strategy = FirstMatch
    /\ route = [t \in Procs |-> NoRoute]
    /\ reply = NoReply
    /\ services = EmptyMap
    /\ metadata = EmptyMap
    /\ nextInst = 1
    /\ pc = [t \in Procs |-> "idle"]
    /\ loc = [t \in Procs |-> NoLoc]
    /\ interfered = [t \in Procs |-> FALSE]
    /\ ret = NoRet

\* ------------------------------------------------ observation bookkeeping
AllNames == "*"
Mutating == {"register", "unregister", "execute", "run_health_checks"}
Overlap(n, m) == n = m \/ n = AllNames \/ m = AllNames
Target(f) ==
    IF f.op \in {"run_health_checks", "list_services", "find_by_capability"}
    THEN AllNames ELSE f.name

InFlight(t) == pc[t] # "idle"

\* Does a call of method o on name n, started now by t, overlap a mutating call?
Disturbed(t, n) ==
    \E v \in Procs \ {t} :
        InFlight(v) /\ loc[v].op \in Mutating /\ Overlap(Target(loc[v]), n)

\* The calls in flight that a call of method o on name n overlaps.
Disturbs(t, o, n) ==
    {u \in Procs \ {t} : InFlight(u) /\ o \in Mutating /\ Overlap(Target(loc[u]), n)}

\* t enters a method that takes several steps, with frame f, at label l.
Enter(t, f, l) ==
    /\ pc' = [pc EXCEPT ![t] = l]
    /\ loc' = [loc EXCEPT ![t] = f]
    /\ interfered' = [u \in Procs |->
                        IF u = t THEN Disturbed(t, Target(f))
                        ELSE interfered[u] \/ u \in Disturbs(t, f.op, Target(f))]
    /\ ret' = NoRet

\* t calls a method that returns r within its first step.
Answer(t, f, r) ==
    /\ UNCHANGED <<pc, loc>>
    /\ interfered' = [u \in Procs |->
                        interfered[u] \/ u \in Disturbs(t, f.op, Target(f))]
    /\ ret' = [r EXCEPT !.proc = t, !.frame = f,
                        !.clean = ~Disturbed(t, Target(f))]

\* t moves on inside its method with frame f, to label l.
Step(t, f, l) ==
    /\ pc' = [pc EXCEPT ![t] = l]
    /\ loc' = [loc EXCEPT ![t] = f]
    /\ UNCHANGED interfered
    /\ ret' = NoRet

\* t returns r from the method it is in, its frame being f at that point.
Return(t, f, r) ==
    /\ pc' = [pc EXCEPT ![t] = "idle"]
    /\ loc' = [loc EXCEPT ![t] = NoLoc]
    /\ interfered' = [interfered EXCEPT ![t] = FALSE]
    /\ ret' = [r EXCEPT !.proc = t, !.frame = f, !.clean = ~interfered[t]]

OkRes == [NoRet EXCEPT !.kind = "ok"]
ErrRes(e) == [NoRet EXCEPT !.kind = "err", !.err = Some(e)]
Awaited(f) == [f EXCEPT !.calls = @ + 1]

\* A registry method called directly, by a caller that is not inside
\* route_request: the router is left alone and returns nothing.
Quiet(t) ==
    /\ route[t] = NoRoute
    /\ reply' = NoReply
    /\ UNCHANGED <<tool_mappings, default_strategy, route, server>>

\* ---------------------------------------------------------------- locks
\* A registry that keeps the services read guard for as long as the provider
\* method it awaits (execute, health_check) has not returned.
HeldAcrossCall(l) ==
    IF l \in {"exec_call", "hc_call"} THEN {<<"services", "read">>} ELSE {}

\* A registry whose execute takes the metadata write guard once per field, so
\* that the guard is free between the write of status and that of last_error.
HeldPerField(l) ==
    IF l \in {"exec_status", "hc_write"} THEN {<<"metadata", "write">>} ELSE {}

\* A registry that nests its two locks: unregister keeps the services write
\* guard until it has removed the Registration, and register takes the
\* metadata write guard before it inserts the handle.
HeldNested(l) ==
    IF l \in {"exec_status", "exec_error", "hc_write"} THEN {<<"metadata", "write">>}
    ELSE IF l = "unreg_meta" THEN {<<"services", "write">>}
    ELSE IF l = "reg_svc" THEN {<<"metadata", "write">>}
    ELSE {}

\* The RwLock guards a caller holds at label l, as <<map, mode>> pairs.  Every
\* guard in the registry lives in a block or a statement that ends before the
\* next await, so a caller waiting for a provider or for a lock holds none;
\* inside the status update of execute (exec_status, exec_error) and of
\* run_health_checks (hc_write) it holds the metadata write guard.
HeldAt(l) ==
    IF l \in {"exec_status", "exec_error", "hc_write"}
    THEN {<<"metadata", "write">>}
    ELSE {}
Holds(t) == HeldAt(pc[t])

\* self.<k>.read().await is granted unless another caller holds a write guard.
CanRead(t, k) == \A u \in Procs \ {t} : <<k, "write">> \notin Holds(u)

\* self.<k>.write().await is granted unless another caller holds any guard.
CanWrite(t, k) ==
    \A u \in Procs \ {t} : \A m \in {"read", "write"} : <<k, m>> \notin Holds(u)


\* A Registration that starts Inactive, to be activated by its first check.
NewRegistrationInactive(n, caps, at) ==
    [name |-> n, capabilities |-> caps, status |-> Inactive, last_error |-> None,
     registered_at |-> at, last_health_check |-> None]

\* ---------------------------------------------------------------- register
NewRegistration(n, caps, at) ==
    [name |-> n, capabilities |-> caps, status |-> Active, last_error |-> None,
     registered_at |-> at, last_health_check |-> None]

IsRegistered(n) == n \in DOMAIN services


\* register without the duplicate-name check: the later insert overwrites.
RegisterCheckNoDup(t, n) ==
    /\ pc[t] = "idle"
    /\ nextInst <= MaxInst
    /\ nextInst' = nextInst + 1
    /\ Enter(t, [Frame("register", n) EXCEPT !.inst = nextInst], "reg_init")
    /\ UNCHANGED <<services, metadata>>

\* register(provider), provider.name() = n.  The caller hands over a freshly
\* boxed provider: instance nextInst.
RegisterCheck(t, n) ==
    /\ pc[t] = "idle"
    /\ CanRead(t, "services")
    /\ nextInst <= MaxInst
    /\ nextInst' = nextInst + 1
    /\ LET f == [Frame("register", n) EXCEPT !.inst = nextInst] IN
       IF IsRegistered(n)
       THEN Answer(t, f, ErrRes(AlreadyRegistered(n)))
       ELSE Enter(t, f, "reg_init")
    /\ UNCHANGED <<services, metadata>>


\* register storing the handle before initialize() has succeeded.
RegisterInitEager(t, o) ==
    /\ pc[t] = "reg_init"
    /\ CanWrite(t, "services")
    /\ services' = Put(services, loc[t].name, loc[t].inst)
    /\ LET f == [Awaited(loc[t]) EXCEPT !.out = o] IN
       IF o.ok THEN Step(t, f, "reg_caps") ELSE Return(t, f, ErrRes(o.err[1]))
    /\ UNCHANGED <<metadata, nextInst>>

\* provider.initialize().await?  with outcome o
RegisterInit(t, o) ==
    /\ pc[t] = "reg_init"
    /\ LET f == [Awaited(loc[t]) EXCEPT !.out = o] IN
       IF o.ok THEN Step(t, f, "reg_caps") ELSE Return(t, f, ErrRes(o.err[1]))
    /\ UNCHANGED <<services, metadata, nextInst>>

\* provider.get_capabilities().await?  returning Ok(caps)
RegisterCaps(t, caps) ==
    /\ pc[t] = "reg_caps"
    /\ Step(t, [Awaited(loc[t]) EXCEPT !.caps = caps], "reg_svc")
    /\ UNCHANGED <<services, metadata, nextInst>>

\* provider.get_capabilities().await?  returning Err(e)
RegisterCapsFail(t, e) ==
    /\ pc[t] = "reg_caps"
    /\ Return(t, [Awaited(loc[t]) EXCEPT !.out = CallErr(e)], ErrRes(e))
    /\ UNCHANGED <<services, metadata, nextInst>>

RegisterInsertService(t) ==
    /\ pc[t] = "reg_svc"
    /\ CanWrite(t, "services")
    /\ services' = Put(services, loc[t].name, loc[t].inst)
    /\ Step(t, loc[t], "reg_meta")
    /\ UNCHANGED <<metadata, nextInst>>


\* register storing a Registration without the capabilities it fetched.
RegisterInsertMetaNoCaps(t, at) ==
    /\ pc[t] = "reg_meta"
    /\ CanWrite(t, "metadata")
    /\ metadata' = Put(metadata, loc[t].name, NewRegistration(loc[t].name, <<>>, at))
    /\ Return(t, loc[t], OkRes)
    /\ UNCHANGED <<services, nextInst>>

\* at = Utc::now()
RegisterInsertMeta(t, at) ==
    /\ pc[t] = "reg_meta"
    /\ CanWrite(t, "metadata")
    /\ metadata' = Put(metadata, loc[t].name,
                       NewRegistration(loc[t].name, loc[t].caps, at))
    /\ Return(t, loc[t], OkRes)
    /\ UNCHANGED <<services, nextInst>>

\* ---------------------------------------------------------------- unregister
UnregisterRemoveService(t, n) ==
    /\ pc[t] = "idle"
    /\ CanWrite(t, "services")
    /\ IF IsRegistered(n)
       THEN /\ services' = Del(services, n)
            /\ Enter(t, [Frame("unregister", n) EXCEPT !.inst = services[n]],
                     "unreg_meta")
       ELSE /\ UNCHANGED services
            /\ Answer(t, Frame("unregister", n), ErrRes(NotFound(n)))
    /\ UNCHANGED <<metadata, nextInst>>

UnregisterRemoveMeta(t) ==
    /\ pc[t] = "unreg_meta"
    /\ CanWrite(t, "metadata")
    /\ metadata' = Del(metadata, loc[t].name)
    /\ Return(t, loc[t], OkRes)
    /\ UNCHANGED <<services, nextInst>>


\* A lookup that answers Ok with an empty handle for a name it does not hold.
LookupLenient(n) ==
    [OkRes EXCEPT !.handle = IF IsRegistered(n) THEN services[n] ELSE 0]

\* ---------------------------------------------------------------- readers
\* get_service: Ok(handle) or Err(not found), under the services read lock.
Lookup(n) ==
    IF IsRegistered(n)
    THEN [OkRes EXCEPT !.handle = services[n]]
    ELSE ErrRes(NotFound(n))

GetService(t, n) ==
    /\ pc[t] = "idle"
    /\ CanRead(t, "services")
    /\ Answer(t, Frame("get_service", n), Lookup(n))
    /\ UNCHANGED <<services, metadata, nextInst>>

\* list_services: the cloned values of the metadata map (in no fixed order).
Listing == {metadata[n] : n \in DOMAIN metadata}

ListServices(t) ==
    /\ pc[t] = "idle"
    /\ CanRead(t, "metadata")
    /\ Answer(t, Frame("list_services", NoName), [OkRes EXCEPT !.regs = Listing])
    /\ UNCHANGED <<services, metadata, nextInst>>

\* reg.capabilities.iter().any(|cap| cap.name == capability_name)
HasCapability(reg, c) == \E i \in DOMAIN reg.capabilities : reg.capabilities[i] = c


\* A capability search that skips providers whose status is not Active.
MatchingHealthy(c) ==
    {n \in DOMAIN metadata : metadata[n].status = Active /\ HasCapability(metadata[n], c)}


\* A capability search that returns every name that has a Registration.
MatchingAny(c) == DOMAIN metadata

\* The keys of the metadata entries that pass the filter.
Matching(c) == {n \in DOMAIN metadata : HasCapability(metadata[n], c)}

\* find_by_capability collects the matching keys in the map's iteration order,
\* which HashMap leaves unspecified: any arrangement of them can come back.
FindResults(c) == Perms(Matching(c))

FindByCapability(t, c) ==
    /\ pc[t] = "idle"
    /\ CanRead(t, "metadata")
    /\ \E found \in FindResults(c) :
        Answer(t, [Frame("find_by_capability", NoName) EXCEPT !.caps = <<c>>],
               [OkRes EXCEPT !.names = found])
    /\ UNCHANGED <<services, metadata, nextInst>>

\* ---------------------------------------------------------------- execute
ExecuteGet(t, n) ==
    /\ pc[t] = "idle"
    /\ CanRead(t, "services")
    /\ LET r == Lookup(n) IN
       IF r.kind = "ok"
       THEN Enter(t, [Frame("execute", n) EXCEPT !.inst = r.handle], "exec_call")
       ELSE Answer(t, Frame("execute", n), r)
    /\ UNCHANGED <<services, metadata, nextInst>>

\* service.execute(command).await on the handle obtained above, with outcome o
ExecuteCall(t, o) ==
    /\ pc[t] = "exec_call"
    /\ Step(t, [Awaited(loc[t]) EXCEPT !.out = o], "exec_update")
    /\ UNCHANGED <<services, metadata, nextInst>>

\* if let Some(reg) = metadata.get_mut(name) { reg.status = ..; reg.last_error = .. }
SetStatus(md, n, st, le) ==
    IF n \in DOMAIN md
    THEN [md EXCEPT ![n].status = st, ![n].last_error = le]
    ELSE md


\* execute propagating a provider error without recording it.
ExecuteEffectUnrecorded(md, n, o) ==
    IF o.ok /\ o.success THEN SetStatus(md, n, Active, None) ELSE md

\* execute recording failures but never moving a Registration back to Active.
ExecuteEffectNoRecovery(md, n, o) ==
    IF ~o.ok THEN SetStatus(md, n, Error, Some(to_string(o.err[1]))) ELSE md

\* The Registration update execute makes for provider outcome o.
ExecuteEffect(md, n, o) ==
    IF ~o.ok THEN SetStatus(md, n, Error, Some(to_string(o.err[1])))
    ELSE IF o.success THEN SetStatus(md, n, Active, None)
    ELSE md

ExecuteResult(o) ==
    IF o.ok THEN [OkRes EXCEPT !.success = o.success] ELSE ErrRes(o.err[1])

PrevStatus(n) == IF n \in DOMAIN metadata THEN Some(metadata[n].status) ELSE None

ExecuteUpdate(t) ==
    /\ pc[t] = "exec_update"
    /\ ((loc[t].out.ok /\ ~loc[t].out.success) \/ CanWrite(t, "metadata"))
    /\ metadata' = ExecuteEffect(metadata, loc[t].name, loc[t].out)
    /\ Return(t, loc[t], [ExecuteResult(loc[t].out) EXCEPT
                            !.prev = PrevStatus(loc[t].name)])
    /\ UNCHANGED <<services, nextInst>>

\* ---------------------------------------------------------------- health checks
HealthSnapshot(t) ==
    /\ pc[t] = "idle"
    /\ CanRead(t, "services")
    /\ LET f == [Frame("run_health_checks", NoName) EXCEPT !.snap = services] IN
       IF DOMAIN services = {}
       THEN Answer(t, f, OkRes)
       ELSE Enter(t, f, "hc_call")
    /\ UNCHANGED <<services, metadata, nextInst>>

\* The for loop takes the snapshot's entries in the map's (unspecified) order;
\* service.health_check().await has outcome o.
HealthCall(t, o) ==
    /\ pc[t] = "hc_call"
    /\ \E n \in DOMAIN loc[t].snap \ DOMAIN loc[t].results :
        Step(t, [Awaited(loc[t]) EXCEPT !.name = n, !.inst = loc[t].snap[n],
                                        !.out = o], "hc_update")
    /\ UNCHANGED <<services, metadata, nextInst>>


\* A health-check update that records failures only.
HealthEffectFailuresOnly(md, n, o, at) ==
    IF n \in DOMAIN md /\ ~o.ok
    THEN [md EXCEPT ![n].last_health_check = Some(at),
                    ![n].status = Error,
                    ![n].last_error = Some(to_string(o.err[1]))]
    ELSE md

\* A health-check update that also restamps the Registration.
HealthEffectRestamps(md, n, o, at) ==
    IF n \in DOMAIN md
    THEN [md EXCEPT ![n].last_health_check = Some(at),
                    ![n].registered_at = at,
                    ![n].status = IF o.ok THEN Active ELSE Error,
                    ![n].last_error = IF o.ok THEN None ELSE Some(to_string(o.err[1]))]
    ELSE md

HealthEffect(md, n, o, at) ==
    IF n \in DOMAIN md
    THEN [md EXCEPT ![n].last_health_check = Some(at),
                    ![n].status = IF o.ok THEN Active ELSE Error,
                    ![n].last_error = IF o.ok THEN None ELSE Some(to_string(o.err[1]))]
    ELSE md

\* at = Utc::now()
HealthUpdate(t, at) ==
    /\ pc[t] = "hc_update"
    /\ CanWrite(t, "metadata")
    /\ metadata' = HealthEffect(metadata, loc[t].name, loc[t].out, at)
    /\ LET f == [loc[t] EXCEPT !.results = Put(@, loc[t].name, loc[t].out.err)] IN
       IF DOMAIN f.results = DOMAIN f.snap
       THEN Return(t, f, [OkRes EXCEPT !.health = f.results])
       ELSE Step(t, f, "hc_call")
    /\ UNCHANGED <<services, nextInst>>

\* ------------------------------------------- status updates, step by step
\* The status updates of execute and run_health_checks with the metadata
\* write guard made visible: the caller is granted the guard, writes the
\* fields under it, and drops it when the block ends.

\* get_status: Ok(the cloned Registration) or Err(not found), under the
\* metadata read lock.
GetStatus(t, n) ==
    /\ pc[t] = "idle"
    /\ CanRead(t, "metadata")
    /\ Answer(t, Frame("get_status", n),
              IF n \in DOMAIN metadata
              THEN [OkRes EXCEPT !.regs = {metadata[n]}]
              ELSE ErrRes(NotFound(n)))
    /\ UNCHANGED <<services, metadata, nextInst>>

\* execute after the provider has returned: Ok(result) with success false
\* returns at once; otherwise self.metadata.write().await is granted.
ExecuteLock(t) ==
    /\ pc[t] = "exec_update"
    /\ IF loc[t].out.ok /\ ~loc[t].out.success
       THEN Return(t, loc[t], [ExecuteResult(loc[t].out) EXCEPT
                                 !.prev = PrevStatus(loc[t].name)])
       ELSE CanWrite(t, "metadata") /\ Step(t, loc[t], "exec_status")
    /\ UNCHANGED <<services, metadata, nextInst>>

\* reg.status = ..  (inside if let Some(reg) = metadata.get_mut(service_name))
ExecuteSetStatus(t) ==
    /\ pc[t] = "exec_status"
    /\ metadata' = IF loc[t].name \in DOMAIN metadata
                   THEN [metadata EXCEPT ![loc[t].name].status =
                            IF loc[t].out.ok THEN Active ELSE Error]
                   ELSE metadata
    /\ Step(t, loc[t], "exec_error")
    /\ UNCHANGED <<services, nextInst>>

\* reg.last_error = ..; the guard is dropped and execute returns (the status
\* that was replaced is not carried across the two writes).
ExecuteSetError(t) ==
    /\ pc[t] = "exec_error"
    /\ metadata' = IF loc[t].name \in DOMAIN metadata
                   THEN [metadata EXCEPT ![loc[t].name].last_error =
                            IF loc[t].out.ok THEN None
                            ELSE Some(to_string(loc[t].out.err[1]))]
                   ELSE metadata
    /\ Return(t, loc[t], ExecuteResult(loc[t].out))
    /\ UNCHANGED <<services, nextInst>>

\* run_health_checks after a health_check has returned:
\* self.metadata.write().await is granted.
HealthLock(t) ==
    /\ pc[t] = "hc_update"
    /\ CanWrite(t, "metadata")
    /\ Step(t, loc[t], "hc_write")
    /\ UNCHANGED <<services, metadata, nextInst>>

\* The Registration is updated under the guard, the result is recorded and
\* the guard is dropped at the end of the loop body; at = Utc::now().
HealthApply(t, at) ==
    /\ pc[t] = "hc_write"
    /\ metadata' = HealthEffect(metadata, loc[t].name, loc[t].out, at)
    /\ LET f == [loc[t] EXCEPT !.results = Put(@, loc[t].name, loc[t].out.err)] IN
       IF DOMAIN f.results = DOMAIN f.snap
       THEN Return(t, f, [OkRes EXCEPT !.health = f.results])
       ELSE Step(t, f, "hc_call")
    /\ UNCHANGED <<services, nextInst>>

\* ---------------------------------------------------------------- router
\* anyhow!("Direct routing requires tool mapping")
DirectRequiresMapping == [msg |-> <<"Direct routing requires tool mapping">>]

\* anyhow!("No service found for tool: {}", request.tool)
NoServiceFound(tool) == [msg |-> <<"No service found for tool:", tool>>]

\* errors.join(", ")
RECURSIVE Join(_)
Join(errors) ==
    IF errors = <<>> THEN <<>>
    ELSE IF Len(errors) = 1 THEN errors[1]
    ELSE errors[1] \o <<",">> \o Join(Tail(errors))


\* An aggregated error that reports the last failure only.
AllFailedLast(errors) == [msg |-> <<"All services failed:">> \o errors[Len(errors)]]

\* anyhow!("All services failed: {}", errors.join(", "))
AllFailed(errors) == [msg |-> <<"All services failed:">> \o Join(errors)]

\* format!("{}: {}", service_name, e)
ErrorEntry(service_name, e) == <<service_name, ":">> \o to_string(e)

OkReply == [NoReply EXCEPT !.kind = "ok"]
ErrReply(e) == [NoReply EXCEPT !.kind = "err", !.err = Some(e)]

\* self.default_strategy = strategy  (&mut self: no route_request is running)
SetDefaultStrategy(strategy) ==
    /\ \A t \in Procs : pc[t] = "idle" /\ route[t] = NoRoute
    /\ default_strategy' = strategy
    /\ reply' = NoReply
    /\ ret' = NoRet
    /\ UNCHANGED <<registry, tool_mappings, route, server>>

\* self.tool_mappings.insert(tool, service)  (&mut self)
AddToolMapping(tool, service) ==
    /\ \A t \in Procs : pc[t] = "idle" /\ route[t] = NoRoute
    /\ tool_mappings' = Put(tool_mappings, tool, service)
    /\ reply' = NoReply
    /\ ret' = NoRet
    /\ UNCHANGED <<registry, default_strategy, route, server>>


\* A router that looks at tool_mappings only when its strategy is Direct.
DispatchStrategyFirst(tool) ==
    IF default_strategy = Direct /\ tool \in DOMAIN tool_mappings
    THEN Mapped
    ELSE default_strategy


\* A router whose Direct strategy falls back to the first match when the tool
\* has no tool_mappings entry.
DispatchDirectFallsBack(tool) ==
    IF tool \in DOMAIN tool_mappings THEN Mapped
    ELSE IF default_strategy = Direct THEN FirstMatch
    ELSE default_strategy

\* route_request: a tool_mappings entry is looked at first, then the strategy.
Dispatch(tool) ==
    IF tool \in DOMAIN tool_mappings THEN Mapped ELSE default_strategy

\* route_request returns r; rt is the frame it ended with.
Finish(t, rt, r) ==
    /\ route' = [route EXCEPT ![t] = NoRoute]
    /\ reply' = [r EXCEPT !.proc = t, !.route = rt]
    /\ UNCHANGED <<tool_mappings, default_strategy, server>>

\* route_request goes on with frame rt.
Continue(t, rt) ==
    /\ route' = [route EXCEPT ![t] = rt]
    /\ reply' = NoReply
    /\ UNCHANGED <<tool_mappings, default_strategy, server>>

\* The ServiceResult / error of registry.execute, handed on as it is.
Forward(r) ==
    IF r.kind = "ok" THEN [OkReply EXCEPT !.success = r.success]
    ELSE ErrReply(r.err[1])


\* A loop whose success flag follows the provider executed last.
BroadcastCollectLast(rt, service_name, r) ==
    IF r.kind = "ok"
    THEN [rt EXCEPT !.any_success = r.success,
                    !.all_results = Append(@, [success |-> r.success])]
    ELSE [rt EXCEPT !.any_success = FALSE,
                    !.errors = Append(@, ErrorEntry(service_name, r.err[1]))]

\* One turn of route_broadcast's loop: registry.execute on service_name gave r.
BroadcastCollect(rt, service_name, r) ==
    IF r.kind = "ok"
    THEN [rt EXCEPT !.any_success = @ \/ r.success,
                    !.all_results = Append(@, [success |-> r.success])]
    ELSE [rt EXCEPT !.errors = Append(@, ErrorEntry(service_name, r.err[1]))]

\* route_broadcast after its loop.
BroadcastResult(rt) ==
    IF rt.all_results = <<>> /\ rt.errors # <<>>
    THEN ErrReply(AllFailed(rt.errors))
    ELSE [OkReply EXCEPT
            !.success = rt.any_success,
            !.results = rt.all_results,
            !.errors = rt.errors,
            !.error = IF rt.errors = <<>> THEN None ELSE Some(Join(rt.errors)),
            !.strategy = Some("broadcast"),
            !.services_called = Len(rt.all_results)]


\* A router that takes the names find_by_capability returned from the back.
CurrentFromBack(rt) == rt.services[Len(rt.services) - rt.i]

\* The service execute_on_service is called with next.
Current(rt) == rt.services[rt.i + 1]


\* A broadcast loop that gives up at the first execution that fails.
ResumeUntilFailure(t, rt, r) ==
    LET n == Current(rt)
        done == [rt EXCEPT !.i = @ + 1,
                           !.trace = Append(@, [name |-> n, kind |-> r.kind,
                                                success |-> r.success, err |-> r.err,
                                                reached |-> r.frame.calls = 1])]
    IN IF rt.op = Broadcast
       THEN LET b == BroadcastCollect(done, n, r) IN
            IF b.i = Len(b.services) \/ r.kind = "err"
            THEN Finish(t, b, BroadcastResult(b))
            ELSE Continue(t, b)
       ELSE Finish(t, done, Forward(r))

\* registry.execute(Current(rt), command) returned r to route_request.
Resume(t, rt, r) ==
    LET n == Current(rt)
        done == [rt EXCEPT !.i = @ + 1,
                           !.trace = Append(@, [name |-> n, kind |-> r.kind,
                                                success |-> r.success, err |-> r.err,
                                                reached |-> r.frame.calls = 1])]
    IN IF rt.op = Broadcast
       THEN LET b == BroadcastCollect(done, n, r) IN
            IF b.i = Len(b.services)
            THEN Finish(t, b, BroadcastResult(b))
            ELSE Continue(t, b)
       ELSE Finish(t, done, Forward(r))

\* execute_on_service -> registry.execute: its lookup of the handle has been
\* made in this step; it either failed at once or left the caller at the
\* provider's execute.
AfterGet(t, rt) ==
    IF pc'[t] = "idle" THEN Resume(t, rt, ret') ELSE Continue(t, rt)

\* route_request(request), request.tool = tool, up to the end of its first
\* critical section in the registry (if it gets that far).
RouteRequest(t, tool) ==
    /\ pc[t] = "idle"
    /\ route[t] = NoRoute
    /\ LET how == Dispatch(tool)
           rt == [NoRoute EXCEPT !.op = how, !.tool = tool]
       IN CASE how = Mapped ->
                  /\ ExecuteGet(t, tool_mappings[tool])
                  /\ AfterGet(t, [rt EXCEPT !.services = <<tool_mappings[tool]>>])
            [] how = Direct ->
                  /\ ret' = NoRet
                  /\ UNCHANGED registry
                  /\ Finish(t, rt, ErrReply(DirectRequiresMapping))
            [] OTHER ->
                  /\ FindByCapability(t, tool)
                  /\ IF ret'.names = <<>>
                     THEN Finish(t, rt, ErrReply(NoServiceFound(tool)))
                     ELSE Continue(t, [rt EXCEPT !.services = ret'.names])

\* route_first_match / route_broadcast: execute_on_service on the next name,
\* up to the end of registry.execute's lookup of the handle.
RouteExecute(t) ==
    /\ pc[t] = "idle"
    /\ route[t].op \in {FirstMatch, Broadcast}
    /\ ExecuteGet(t, Current(route[t]))
    /\ AfterGet(t, route[t])

\* The provider's execute, awaited by registry.execute inside route_request.
RouteExecuteCall(t, o) ==
    /\ route[t] # NoRoute
    /\ ExecuteCall(t, o)
    /\ Continue(t, route[t])

\* registry.execute records the outcome and returns it to route_request.
RouteExecuteUpdate(t) ==
    /\ route[t] # NoRoute
    /\ ExecuteUpdate(t)
    /\ Resume(t, route[t], ret')

\* ---------------------------------------------------------------- server
\* The handlers of both servers work on the storage only: no step of a server
\* touches the registry or the router.
core == <<services, metadata, nextInst, pc, loc, interfered, ret,
          tool_mappings, default_strategy, route, reply>>

\* handlers.rs: a method handler rejects the params it cannot deserialize.
InvalidParameters == [msg |-> <<"Invalid parameters", ":", "serde">>]

\* What the handler of get_project_context can return: in handlers.rs the
\* result or the params error, in handlers_v2.rs the result or the storage's
\* error.
HandlerOutcomes(v) ==
    {CallOk(TRUE)} \cup
    (IF v = V1 THEN {CallErr(InvalidParameters)} ELSE {CallErr(e) : e \in StorageErrors})

Handling == {c \in Conns : conn[c].st = "open"}

\* A client's connect completes in the listening socket's backlog.
ClientConnect(c) ==
    /\ listener.pc # "returned"
    /\ conn[c].st = "unconnected"
    /\ conn' = [conn EXCEPT ![c].st = "backlog"]
    /\ listener' = [listener EXCEPT !.backlog = Append(@, c)]
    /\ UNCHANGED <<core, variant, semaphore>>

\* A connected client writes one more line; the socket buffers it whether or
\* not the server has accepted the connection yet.
ClientSend(c, line) ==
    /\ conn[c].st \in {"backlog", "accepted", "open"}
    /\ ~conn[c].eof
    /\ Len(conn[c].got) + Len(conn[c].input) < MaxLines
    /\ conn' = [conn EXCEPT ![c].input = Append(@, line)]
    /\ UNCHANGED <<core, variant, listener, semaphore>>

\* A connected client shuts down its sending side.
ClientClose(c) ==
    /\ conn[c].st \in {"backlog", "accepted", "open"}
    /\ ~conn[c].eof
    /\ conn' = [conn EXCEPT ![c].eof = TRUE]
    /\ UNCHANGED <<core, variant, listener, semaphore>>

\* listener.accept() returns the oldest waiting connection.  server.rs spawns
\* its handler at once; server_v2.rs goes on to acquire a permit.
Accept ==
    /\ listener.pc = "accept"
    /\ listener.backlog # <<>>
    /\ LET c == Head(listener.backlog) IN
       IF variant = V1
       THEN /\ listener' = [listener EXCEPT !.backlog = Tail(@)]
            /\ conn' = [conn EXCEPT ![c].st = "open", ![c].hpc = "read"]
       ELSE /\ listener' = [pc |-> "acquire", stream |-> c,
                            backlog |-> Tail(listener.backlog)]
            /\ conn' = [conn EXCEPT ![c].st = "accepted"]
    /\ UNCHANGED <<core, variant, semaphore>>

\* listener.accept() returns an error.  server.rs logs it and loops;
\* server_v2.rs propagates it with `?`, which returns from run_server.
AcceptFail ==
    /\ listener.pc = "accept"
    /\ listener' = [listener EXCEPT !.pc = IF variant = V1 THEN "accept" ELSE "returned"]
    /\ UNCHANGED <<core, variant, semaphore, conn>>

\* A run_server that spawns the handler whether or not a permit is left.
AcquireAnyway ==
    /\ variant = V2
    /\ listener.pc = "acquire"
    /\ semaphore' = IF semaphore > 0 THEN semaphore - 1 ELSE 0
    /\ conn' = [conn EXCEPT ![listener.stream].st = "open",
                            ![listener.stream].hpc = "read"]
    /\ listener' = [listener EXCEPT !.pc = "accept", !.stream = 0]
    /\ UNCHANGED <<core, variant>>

\* server_v2.rs: acquire_owned() completes once a permit is available, and the
\* handler is spawned owning that permit.
Acquire ==
    /\ variant = V2
    /\ listener.pc = "acquire"
    /\ semaphore > 0
    /\ semaphore' = semaphore - 1
    /\ conn' = [conn EXCEPT ![listener.stream].st = "open",
                            ![listener.stream].hpc = "read"]
    /\ listener' = [listener EXCEPT !.pc = "accept", !.stream = 0]
    /\ UNCHANGED <<core, variant>>

\* A handler task that gives its permit back only when handle_connection
\* returned Ok.
ReleaseOnOk(how) ==
    IF variant = V2 /\ how # "write error" THEN semaphore + 1 ELSE semaphore

\* The permits left once a handler task has finished: server_v2.rs drops the
\* task's permit after handle_connection has returned, whatever it returned;
\* server.rs has no permits.
Release(how) == IF variant = V2 THEN semaphore + 1 ELSE semaphore

\* handle_connection returns (how: eof, read error, write error, timeout) and
\* the task finishes, which closes the socket.
HandlerReturn(c, how) ==
    /\ conn' = [conn EXCEPT ![c].st = "ended", ![c].hpc = "none",
                            ![c].pending = None, ![c].how = how]
    /\ semaphore' = Release(how)

\* The response to one line that was read whole: server.rs checks its size
\* first, then parses and dispatches; server_v2.rs parses and dispatches.
ResponseTo(line, o) ==
    IF variant = V1
    THEN IF line.len > MAX_MESSAGE_SIZE THEN TooLarge ELSE RespondV1(line, o)
    ELSE RespondV2(line, o)

\* read_line returns a line; the handler computes the response (the method
\* handler returning o) and goes on to write it.
HandlerRead(c, o) ==
    /\ conn[c].st = "open" /\ conn[c].hpc = "read"
    /\ conn[c].input # <<>>
    /\ LET line == Head(conn[c].input) IN
       conn' = [conn EXCEPT ![c].input = Tail(@),
                            ![c].got = Append(@, line),
                            ![c].pending = Some(ResponseTo(line, o)),
                            ![c].last = FALSE,
                            ![c].hpc = "write"]
    /\ UNCHANGED <<core, variant, listener, semaphore>>

\* read_line returns Ok(0): the client has closed and nothing is left to read.
HandlerEof(c) ==
    /\ conn[c].st = "open" /\ conn[c].hpc = "read"
    /\ conn[c].input = <<>> /\ conn[c].eof
    /\ HandlerReturn(c, "eof")
    /\ UNCHANGED <<core, variant, listener>>

\* read_line returns an error (the connection was reset): both servers break
\* out of the loop.
HandlerReadFail(c) ==
    /\ conn[c].st = "open" /\ conn[c].hpc = "read"
    /\ HandlerReturn(c, "read error")
    /\ UNCHANGED <<core, variant, listener>>

\* A handler that answers the timeout and then reads again.
HandlerTimeoutRetry(c) ==
    /\ variant = V1
    /\ conn[c].st = "open" /\ conn[c].hpc = "read"
    /\ conn[c].input = <<>> /\ ~conn[c].eof
    /\ conn' = [conn EXCEPT ![c].pending = Some(TimedOut), ![c].last = FALSE,
                            ![c].hpc = "write"]
    /\ UNCHANGED <<core, variant, listener, semaphore>>

\* server.rs: DEFAULT_TIMEOUT passes with no line from the client; the
\* handler goes on to write the timeout response and breaks after it.
HandlerTimeout(c) ==
    /\ variant = V1
    /\ conn[c].st = "open" /\ conn[c].hpc = "read"
    /\ conn[c].input = <<>> /\ ~conn[c].eof
    /\ conn' = [conn EXCEPT ![c].pending = Some(TimedOut), ![c].last = TRUE,
                            ![c].hpc = "write"]
    /\ UNCHANGED <<core, variant, listener, semaphore>>

\* A handler whose responses overtake the ones written before them.
HandlerWriteFirst(c) ==
    /\ conn[c].st = "open" /\ conn[c].hpc = "write"
    /\ IF conn[c].last
       THEN /\ conn' = [conn EXCEPT ![c].output = <<conn[c].pending[1]>> \o @,
                                    ![c].st = "ended", ![c].hpc = "none",
                                    ![c].pending = None, ![c].how = "timeout"]
            /\ semaphore' = Release("timeout")
       ELSE /\ conn' = [conn EXCEPT ![c].output = <<conn[c].pending[1]>> \o @,
                                    ![c].pending = None, ![c].hpc = "read"]
            /\ UNCHANGED semaphore
    /\ UNCHANGED <<core, variant, listener>>

\* The pending response is written and flushed; the handler reads on, or
\* returns if the response was its last.
HandlerWrite(c) ==
    /\ conn[c].st = "open" /\ conn[c].hpc = "write"
    /\ IF conn[c].last
       THEN /\ conn' = [conn EXCEPT ![c].output = Append(@, conn[c].pending[1]),
                                    ![c].st = "ended", ![c].hpc = "none",
                                    ![c].pending = None, ![c].how = "timeout"]
            /\ semaphore' = Release("timeout")
       ELSE /\ conn' = [conn EXCEPT ![c].output = Append(@, conn[c].pending[1]),
                                    ![c].pending = None, ![c].hpc = "read"]
            /\ UNCHANGED semaphore
    /\ UNCHANGED <<core, variant, listener>>

\* Writing or flushing the response fails: `?` returns the error from
\* handle_connection and the response is not delivered.
HandlerWriteFail(c) ==
    /\ conn[c].st = "open" /\ conn[c].hpc = "write"
    /\ HandlerReturn(c, "write error")
    /\ UNCHANGED <<core, variant, listener>>

\* The lines of the protocol checks: one that is not JSON, requests with a
\* null and with string ids, for a known and for an unknown method, and one
\* longer than MAX_MESSAGE_SIZE.
WireLines ==
    {Garbage(1),
     Line(TRUE, Null, "get_project_context", 1),
     Line(TRUE, Str("1"), "get_project_context", MAX_MESSAGE_SIZE),
     Line(TRUE, Str("2"), "unknown_method", 1),
     Line(TRUE, Str("2"), "get_project_context", MAX_MESSAGE_SIZE + 1)}

\* The line of the admission checks.
PlainLines == {Line(TRUE, Str("1"), "get_project_context", 1)}

\* ---------------------------------------------------------------- specifications
\* The registry driven by the callers P, with provider names N, capability
\* lists C, provider errors E and clock readings T.
Registry(P, N, C, E, T) ==
    \/ \E t \in P, n \in N : RegisterCheck(t, n) /\ Quiet(t)
    \/ \E t \in P, o \in UnitOutcomes(E) : RegisterInit(t, o) /\ Quiet(t)
    \/ \E t \in P, caps \in C : RegisterCaps(t, caps) /\ Quiet(t)
    \/ \E t \in P, e \in E : RegisterCapsFail(t, e) /\ Quiet(t)
    \/ \E t \in P : RegisterInsertService(t) /\ Quiet(t)
    \/ \E t \in P, at \in T : RegisterInsertMeta(t, at) /\ Quiet(t)
    \/ \E t \in P, n \in N : UnregisterRemoveService(t, n) /\ Quiet(t)
    \/ \E t \in P : UnregisterRemoveMeta(t) /\ Quiet(t)
    \/ \E t \in P, n \in N : GetService(t, n) /\ Quiet(t)
    \/ \E t \in P : ListServices(t) /\ Quiet(t)
    \/ \E t \in P, c \in CapNames : FindByCapability(t, c) /\ Quiet(t)
    \/ \E t \in P, n \in N : ExecuteGet(t, n) /\ Quiet(t)
    \/ \E t \in P, o \in ExecOutcomes(E) : ExecuteCall(t, o) /\ Quiet(t)
    \/ \E t \in P : ExecuteUpdate(t) /\ Quiet(t)
    \/ \E t \in P : HealthSnapshot(t) /\ Quiet(t)
    \/ \E t \in P, o \in UnitOutcomes(E) : HealthCall(t, o) /\ Quiet(t)
    \/ \E t \in P, at \in T : HealthUpdate(t, at) /\ Quiet(t)

\* One caller at a time: every call returns before the next one starts.
Next == Registry({1}, Names, CapLists, ProviderErrors, Times)

Spec == Init /\ [][Next]_vars

\* Two callers whose calls overlap, all on one provider name.
ConcNext == Registry(Procs, {"a"}, {<<>>, <<"echo">>}, ProviderErrors, {0})

Conc == Init /\ [][ConcNext]_vars

\* A router on a registry, used by one caller as the orchestration tests do:
\* providers that initialize and advertise at most "echo" are registered and
\* unregistered, the router is configured, and requests are routed.
RouterNext ==
    \/ \E n \in Names : RegisterCheck(1, n) /\ Quiet(1)
    \/ RegisterInit(1, CallOk(TRUE)) /\ Quiet(1)
    \/ \E caps \in {<<>>, <<"echo">>} : RegisterCaps(1, caps) /\ Quiet(1)
    \/ RegisterInsertService(1) /\ Quiet(1)
    \/ RegisterInsertMeta(1, 0) /\ Quiet(1)
    \/ \E n \in Names : UnregisterRemoveService(1, n) /\ Quiet(1)
    \/ UnregisterRemoveMeta(1) /\ Quiet(1)
    \/ \E strategy \in RoutingStrategy : SetDefaultStrategy(strategy)
    \/ \E tool \in Tools, n \in Names : AddToolMapping(tool, n)
    \/ \E tool \in Tools : RouteRequest(1, tool)
    \/ RouteExecute(1)
    \/ \E o \in ExecOutcomes(ProviderErrors) : RouteExecuteCall(1, o)
    \/ RouteExecuteUpdate(1)

Router == Init /\ [][RouterNext]_vars

\* Two callers on two providers, with the status updates taken step by step:
\* caller 1 registers providers that initialize and advertise "echo", both
\* callers execute and read statuses, and caller 2 also runs health checks.
ApartNext ==
    \/ \E n \in Names : RegisterCheck(1, n) /\ Quiet(1)
    \/ RegisterInit(1, CallOk(TRUE)) /\ Quiet(1)
    \/ RegisterCaps(1, <<"echo">>) /\ Quiet(1)
    \/ RegisterInsertService(1) /\ Quiet(1)
    \/ RegisterInsertMeta(1, 0) /\ Quiet(1)
    \/ \E t \in Procs, n \in Names : GetStatus(t, n) /\ Quiet(t)
    \/ \E t \in Procs, n \in Names : ExecuteGet(t, n) /\ Quiet(t)
    \/ \E t \in Procs, o \in ExecOutcomes(ProviderErrors) : ExecuteCall(t, o) /\ Quiet(t)
    \/ \E t \in Procs : ExecuteLock(t) /\ Quiet(t)
    \/ \E t \in Procs : ExecuteSetStatus(t) /\ Quiet(t)
    \/ \E t \in Procs : ExecuteSetError(t) /\ Quiet(t)
    \/ HealthSnapshot(2) /\ Quiet(2)
    \/ \E o \in UnitOutcomes({ProviderError("e1")}) : HealthCall(2, o) /\ Quiet(2)
    \/ HealthLock(2) /\ Quiet(2)
    \/ HealthApply(2, 0) /\ Quiet(2)

Apart == Init /\ [][ApartNext]_vars

\* The clock readings of calls made after the registrations.
LaterTimes == 0..(MaxTime + 1)

\* One caller that registers providers and then uses them in every way that
\* updates a status: execute called directly, execute called by the router
\* under each strategy, and health checks.
WholeNext ==
    \/ \E n \in Names : RegisterCheck(1, n) /\ Quiet(1)
    \/ RegisterInit(1, CallOk(TRUE)) /\ Quiet(1)
    \/ \E caps \in {<<"echo">>, <<"echo", "deploy">>} : RegisterCaps(1, caps) /\ Quiet(1)
    \/ RegisterInsertService(1) /\ Quiet(1)
    \/ RegisterInsertMeta(1, 0) /\ Quiet(1)
    \/ \E n \in Names : ExecuteGet(1, n) /\ Quiet(1)
    \/ \E o \in ExecOutcomes({ProviderError("e1")}) : ExecuteCall(1, o) /\ Quiet(1)
    \/ ExecuteUpdate(1) /\ Quiet(1)
    \/ HealthSnapshot(1) /\ Quiet(1)
    \/ \E o \in UnitOutcomes({ProviderError("e1")}) : HealthCall(1, o) /\ Quiet(1)
    \/ \E at \in LaterTimes : HealthUpdate(1, at) /\ Quiet(1)
    \/ \E strategy \in RoutingStrategy : SetDefaultStrategy(strategy)
    \/ AddToolMapping("deploy", "a")
    \/ \E tool \in Tools : RouteRequest(1, tool)
    \/ RouteExecute(1)
    \/ \E o \in ExecOutcomes({ProviderError("e1")}) : RouteExecuteCall(1, o)
    \/ RouteExecuteUpdate(1)

Whole == Init /\ [][WholeNext]_vars

\* Two callers that register providers under the same names at the same time
\* and look at the registry; nothing is unregistered.
RaceNext ==
    \/ \E t \in Procs, n \in Names : RegisterCheck(t, n) /\ Quiet(t)
    \/ \E t \in Procs, o \in UnitOutcomes({ProviderError("e1")}) :
           RegisterInit(t, o) /\ Quiet(t)
    \/ \E t \in Procs, caps \in {<<>>, <<"echo">>} : RegisterCaps(t, caps) /\ Quiet(t)
    \/ \E t \in Procs : RegisterCapsFail(t, ProviderError("e1")) /\ Quiet(t)
    \/ \E t \in Procs : RegisterInsertService(t) /\ Quiet(t)
    \/ \E t \in Procs, at \in Times : RegisterInsertMeta(t, at) /\ Quiet(t)
    \/ \E t \in Procs, n \in Names : GetService(t, n) /\ Quiet(t)
    \/ \E t \in Procs : ListServices(t) /\ Quiet(t)

Race == Init /\ [][RaceNext]_vars

\* A caller that executes and health-checks while the owner of the registry
\* (caller 2, the only one to register and unregister) replaces providers.
StaleNext ==
    \/ \E n \in Names : RegisterCheck(2, n) /\ Quiet(2)
    \/ RegisterInit(2, CallOk(TRUE)) /\ Quiet(2)
    \/ RegisterCaps(2, <<"echo">>) /\ Quiet(2)
    \/ RegisterInsertService(2) /\ Quiet(2)
    \/ RegisterInsertMeta(2, 0) /\ Quiet(2)
    \/ \E n \in Names : UnregisterRemoveService(2, n) /\ Quiet(2)
    \/ UnregisterRemoveMeta(2) /\ Quiet(2)
    \/ \E n \in Names : ExecuteGet(1, n) /\ Quiet(1)
    \/ \E o \in ExecOutcomes({ProviderError("e1")}) : ExecuteCall(1, o) /\ Quiet(1)
    \/ ExecuteUpdate(1) /\ Quiet(1)
    \/ HealthSnapshot(1) /\ Quiet(1)
    \/ \E o \in UnitOutcomes({ProviderError("e1")}) : HealthCall(1, o) /\ Quiet(1)
    \/ HealthUpdate(1, 0) /\ Quiet(1)

Stale == Init /\ [][StaleNext]_vars

\* Every registry operation, by two callers on one provider name, with the
\* guards of the status updates visible.
LocksStep(t) ==
    \/ RegisterCheck(t, "a") /\ Quiet(t)
    \/ RegisterInit(t, CallOk(TRUE)) /\ Quiet(t)
    \/ RegisterCaps(t, <<"echo">>) /\ Quiet(t)
    \/ RegisterInsertService(t) /\ Quiet(t)
    \/ RegisterInsertMeta(t, 0) /\ Quiet(t)
    \/ UnregisterRemoveService(t, "a") /\ Quiet(t)
    \/ UnregisterRemoveMeta(t) /\ Quiet(t)
    \/ GetService(t, "a") /\ Quiet(t)
    \/ ListServices(t) /\ Quiet(t)
    \/ FindByCapability(t, "echo") /\ Quiet(t)
    \/ GetStatus(t, "a") /\ Quiet(t)
    \/ ExecuteGet(t, "a") /\ Quiet(t)
    \/ \E o \in ExecOutcomes({ProviderError("e1")}) : ExecuteCall(t, o) /\ Quiet(t)
    \/ ExecuteLock(t) /\ Quiet(t)
    \/ ExecuteSetStatus(t) /\ Quiet(t)
    \/ ExecuteSetError(t) /\ Quiet(t)
    \/ HealthSnapshot(t) /\ Quiet(t)
    \/ \E o \in UnitOutcomes({ProviderError("e1")}) : HealthCall(t, o) /\ Quiet(t)
    \/ HealthLock(t) /\ Quiet(t)
    \/ HealthApply(t, 0) /\ Quiet(t)

LocksNext == \E t \in Procs : LocksStep(t)

Locks == Init /\ [][LocksNext]_vars

\* One server (either binary) and one client that sends up to MaxLines lines
\* drawn from WireLines.
WireInit ==
    /\ \E v \in {V1, V2} : Started(v)
    /\ tool_mappings = EmptyMap /\ default_strategy = FirstMatch
    /\ route = [t \in Procs |-> NoRoute] /\ reply = NoReply
    /\ services = EmptyMap /\ metadata = EmptyMap /\ nextInst = 1
    /\ pc = [t \in Procs |-> "idle"] /\ loc = [t \in Procs |-> NoLoc]
    /\ interfered = [t \in Procs |-> FALSE] /\ ret = NoRet

WireNext ==
    \/ ClientConnect(1)
    \/ \E line \in WireLines : ClientSend(1, line)
    \/ ClientClose(1)
    \/ Accept
    \/ Acquire
    \/ \E o \in HandlerOutcomes(variant) : HandlerRead(1, o)
    \/ HandlerEof(1)
    \/ HandlerReadFail(1)
    \/ HandlerTimeout(1)
    \/ HandlerWrite(1)
    \/ HandlerWriteFail(1)

Wire == WireInit /\ [][WireNext]_vars

\* server_v2.rs with MaxConnections permits and MaxConnections + 1 clients,
\* each sending the same request at most once; accept may fail.
AdmitNext ==
    \/ \E c \in Conns : ClientConnect(c)
    \/ \E c \in Conns : \E line \in PlainLines :
           conn[c].got = <<>> /\ conn[c].input = <<>> /\ ClientSend(c, line)
    \/ \E c \in Conns : ClientClose(c)
    \/ Accept
    \/ AcceptFail
    \/ Acquire
    \/ \E c \in Conns : HandlerRead(c, CallOk(TRUE))
    \/ \E c \in Conns : HandlerEof(c)
    \/ \E c \in Conns : HandlerReadFail(c)
    \/ \E c \in Conns : HandlerWrite(c)
    \/ \E c \in Conns : HandlerWriteFail(c)

Admit == Init /\ [][AdmitNext]_vars

\* The admission-controlled server under a fair scheduler: a spawned task that
\* can take a step takes one, and a permit that stays available is handed to
\* the waiting acquire.
AdmitFair ==
    /\ Admit
    /\ WF_vars(Acquire)
    /\ \A c \in Conns :
           WF_vars(HandlerRead(c, CallOk(TRUE)) \/ HandlerEof(c) \/ HandlerWrite(c))

\* ---------------------------------------------------------------- claims
\* The step is caller t's call of method o on name n (its first step).
Calls(t, o, n) ==
    /\ pc[t] = "idle"
    /\ IF pc'[t] = "idle"
       THEN ret'.proc = t /\ ret'.frame.op = o /\ ret'.frame.name = n
       ELSE loc'[t].op = o /\ loc'[t].name = n

Failed(r, e) == r.kind = "err" /\ r.err = Some(e)

\* C1: a register call made while its name is registered fails with "already
\* registered", and that step changes neither map: the handle, the Registration
\* and the number of Registrations stay as they were.
C1_DuplicateRegisterFails ==
    [][\A t \in Procs, n \in Names :
         (IsRegistered(n) /\ Calls(t, "register", n))
            => /\ pc'[t] = "idle"
               /\ Failed(ret', AlreadyRegistered(n))
               /\ services' = services
               /\ metadata' = metadata
               /\ Cardinality(DOMAIN metadata') = Cardinality(DOMAIN metadata)]_vars

C1_Witness ==
    /\ ret.frame.op = "register"
    /\ Failed(ret, AlreadyRegistered(ret.frame.name))
    /\ ret.frame.name \in DOMAIN services
    /\ ret.frame.name \in DOMAIN metadata
    /\ services[ret.frame.name] # ret.frame.inst
    /\ metadata[ret.frame.name].status = Error

\* C2: a register call whose initialize() or get_capabilities() failed returns
\* that error and leaves its name in neither map: get_service fails with "not
\* found", and list_services and find_by_capability do not show the name.
C2_FailedInitKeepsNothing ==
    (ret.frame.op = "register" /\ ret.frame.calls > 0 /\ ~ret.frame.out.ok)
        => LET n == ret.frame.name IN
           /\ ret.kind = "err"
           /\ ret.err = ret.frame.out.err
           /\ n \notin DOMAIN services
           /\ n \notin DOMAIN metadata
           /\ Failed(Lookup(n), NotFound(n))
           /\ \A reg \in Listing : reg.name # n
           /\ \A c \in CapNames : \A found \in FindResults(c) : n \notin Range(found)

C2_Witness ==
    /\ ret.frame.op = "register"
    /\ ret.frame.calls = 2
    /\ ~ret.frame.out.ok
    /\ ret.kind = "err"
    /\ DOMAIN services = Names \ {ret.frame.name}

\* C3: after a successful register, get_service returns the registered handle
\* and the Registration is Active, with no last error, no last health check and
\* the capability list the provider reported.
C3_RegisterStoresActive ==
    (ret.frame.op = "register" /\ ret.kind = "ok" /\ ret.clean)
        => LET n == ret.frame.name IN
           /\ Lookup(n).kind = "ok"
           /\ Lookup(n).handle = ret.frame.inst
           /\ n \in DOMAIN metadata
           /\ metadata[n].name = n
           /\ metadata[n].status = Active
           /\ metadata[n].last_error = None
           /\ metadata[n].last_health_check = None
           /\ metadata[n].capabilities = ret.frame.caps

C3_Witness ==
    /\ ret.frame.op = "register"
    /\ ret.kind = "ok"
    /\ ret.clean
    /\ ret.frame.caps = <<"echo">>
    /\ ret.frame.inst = MaxInst
    /\ services[ret.frame.name] = ret.frame.inst
    /\ metadata[ret.frame.name].status = Active

\* C4: when execute reached a provider and the provider's execute returned an
\* error, the caller gets that same error and the Registration of that name has
\* status Error and the error's message as last error.
C4_ExecuteErrorRecorded ==
    (ret.frame.op = "execute" /\ ret.frame.calls = 1 /\ ~ret.frame.out.ok)
        => LET n == ret.frame.name
               e == ret.frame.out.err[1]
           IN /\ Failed(ret, e)
              /\ n \in DOMAIN metadata
              /\ metadata[n].status = Error
              /\ metadata[n].last_error = Some(e.msg)

C4_Witness ==
    /\ ret.frame.op = "execute"
    /\ ret.frame.calls = 1
    /\ Failed(ret, ProviderError("e2"))
    /\ ret.prev = Some(Active)
    /\ metadata[ret.frame.name].status = Error
    /\ metadata[ret.frame.name].last_error = Some(<<"e2">>)

\* C5: an execute that succeeds on a provider whose Registration is in status
\* Error puts it back to Active and clears the last error (Active, Error,
\* Active for a provider that fails once and then succeeds).
C5_SuccessRestoresActive ==
    (ret.frame.op = "execute" /\ ret.kind = "ok" /\ ret.success
                              /\ ret.prev = Some(Error))
        => LET n == ret.frame.name
           IN /\ n \in DOMAIN metadata
              /\ metadata[n].status = Active
              /\ metadata[n].last_error = None

C5_Witness ==
    /\ ret.frame.op = "execute"
    /\ ret.kind = "ok"
    /\ ret.success
    /\ ret.prev = Some(Error)
    /\ metadata[ret.frame.name].status = Active
    /\ metadata[ret.frame.name].last_error = None
    /\ metadata[ret.frame.name].last_health_check = None

\* C6: get_service, execute and unregister called with a name that is not
\* registered fail with "not found" in their first step, having awaited no
\* provider method, and change neither map.
C6_UnknownNameNotFound ==
    [][\A t \in Procs, n \in Names :
         \A o \in {"get_service", "execute", "unregister"} :
            (~IsRegistered(n) /\ Calls(t, o, n))
               => /\ pc'[t] = "idle"
                  /\ Failed(ret', NotFound(n))
                  /\ ret'.frame.calls = 0
                  /\ services' = services
                  /\ metadata' = metadata]_vars

C6_Witness ==
    /\ ret.frame.op = "execute"
    /\ Failed(ret, NotFound(ret.frame.name))
    /\ ret.frame.calls = 0
    /\ ret.frame.name \notin DOMAIN services
    /\ DOMAIN metadata # {}

\* What the answer r of list_services or find_by_capability shows: names.
Shown(r) ==
    IF r.frame.op = "list_services" THEN {reg.name : reg \in r.regs}
    ELSE IF r.frame.op = "find_by_capability" THEN Range(r.names)
    ELSE {}

\* C7: unregister removes the handle and the Registration atomically for
\* readers: while an unregister that no other mutating call overlaps is under
\* way, a name that list_services or find_by_capability shows to another caller
\* is a name get_service finds.
C7_UnregisterAtomicForReaders ==
    \A t \in Procs :
        (pc[t] = "unreg_meta" /\ ~interfered[t] /\ ret.proc \in Procs \ {t})
            => \A n \in Shown(ret) : Lookup(n).kind = "ok"

\* C8: find_by_capability(c) returns, each once, exactly the registered names
\* whose Registration lists a capability named c, whatever their status and
\* the order they were registered in.
C8_FindByCapabilityExact ==
    (ret.frame.op = "find_by_capability")
        => LET c == ret.frame.caps[1]
               expected == {n \in Names :
                              /\ IsRegistered(n)
                              /\ n \in DOMAIN metadata
                              /\ c \in Range(metadata[n].capabilities)}
           IN /\ Range(ret.names) = expected
              /\ Len(ret.names) = Cardinality(expected)

C8_Witness ==
    /\ ret.frame.op = "find_by_capability"
    /\ ret.frame.caps = <<"echo">>
    /\ ret.names = <<"b", "a">>
    /\ metadata["a"].status = Error
    /\ metadata["b"].status = Active
    /\ services["a"] > services["b"]

\* The same search once "b" has been unregistered again: only "a" is left.
C8_WitnessAfterUnregister ==
    /\ ret.frame.op = "find_by_capability"
    /\ ret.frame.caps = <<"echo">>
    /\ ret.names = <<"a">>
    /\ nextInst > MaxInst
    /\ DOMAIN services = {"a"}

\* C9: every Registration's status is Active or Error, never Inactive.
C9_NeverInactive ==
    \A n \in DOMAIN metadata : metadata[n].status \in {Active, Error}

C9_Witness ==
    /\ DOMAIN metadata = Names
    /\ metadata["a"].status = Error
    /\ metadata["a"].last_health_check # None
    /\ metadata["b"].status = Active
    /\ ret.frame.op = "run_health_checks"

\* C10: run_health_checks returns one outcome per provider of its snapshot and
\* leaves each one's Registration with a last-health-check time and with
\* Active / no error if its check passed, Error / the failure's message if not.
C10_HealthChecksRecorded ==
    (ret.frame.op = "run_health_checks")
        => /\ DOMAIN ret.health = DOMAIN ret.frame.snap
           /\ DOMAIN ret.frame.snap = DOMAIN services
           /\ ret.frame.calls = Cardinality(DOMAIN ret.frame.snap)
           /\ \A n \in DOMAIN ret.health :
                /\ n \in DOMAIN metadata
                /\ metadata[n].last_health_check # None
                /\ IF ret.health[n] = None
                   THEN metadata[n].status = Active /\ metadata[n].last_error = None
                   ELSE /\ metadata[n].status = Error
                        /\ metadata[n].last_error = Some(ret.health[n][1].msg)

C10_Witness ==
    /\ ret.frame.op = "run_health_checks"
    /\ DOMAIN ret.health = Names
    /\ ret.health["a"] = None
    /\ ret.health["b"] = Some(ProviderError("e1"))
    /\ ret.frame.name = "a"
    /\ metadata["a"].status = Active
    /\ metadata["b"].status = Error

\* The next critical section of caller u's call can be entered now; a caller
\* that is between calls can start any registry method on any name.
CanProceed(u) ==
    CASE pc[u] = "idle" ->
            /\ \A n \in Names :
                /\ ENABLED GetService(u, n)
                /\ ENABLED ExecuteGet(u, n)
                /\ ENABLED UnregisterRemoveService(u, n)
                /\ nextInst <= MaxInst => ENABLED RegisterCheck(u, n)
            /\ \A c \in CapNames : ENABLED FindByCapability(u, c)
            /\ ENABLED ListServices(u)
            /\ ENABLED HealthSnapshot(u)
      [] pc[u] = "reg_svc" -> ENABLED RegisterInsertService(u)
      [] pc[u] = "reg_meta" -> ENABLED RegisterInsertMeta(u, 0)
      [] pc[u] = "unreg_meta" -> ENABLED UnregisterRemoveMeta(u)
      [] pc[u] = "exec_update" -> ENABLED ExecuteUpdate(u)
      [] pc[u] = "hc_update" -> ENABLED HealthUpdate(u, 0)
      [] OTHER -> TRUE

\* C11: while a caller waits for a provider's execute() or health_check() to
\* return, it holds neither the services nor the metadata guard, and every
\* other caller can enter the next critical section of register, unregister,
\* get_service, list_services, find_by_capability, execute or a health check.
C11_NoLockAcrossProviderCall ==
    \A t \in Procs :
        pc[t] \in {"exec_call", "hc_call"}
            => /\ Holds(t) = {}
               /\ \A u \in Procs \ {t} : CanProceed(u)

C11_Witness ==
    /\ pc[1] = "exec_call"
    /\ loc[1].inst = 1
    /\ ret.proc = 2
    /\ ret.frame.op = "register"
    /\ ret.kind = "ok"
    /\ ret.frame.inst = MaxInst
    /\ services[ret.frame.name] = MaxInst

\* The provider executions a route made: the names whose execute was awaited.
Executed(rt) == {i \in DOMAIN rt.trace : rt.trace[i].reached}

\* C12: a request whose tool has a tool_mappings entry tool -> P is executed
\* once, on P and on nothing else, whatever the default strategy and whoever
\* advertises the tool; if P is not registered the route fails with P "not
\* found" and reaches no provider.
C12_MappingAlwaysWins ==
    /\ \A t \in Procs :
        (route[t] # NoRoute /\ route[t].tool \in DOMAIN tool_mappings)
            => /\ route[t].op = Mapped
               /\ route[t].services = <<tool_mappings[route[t].tool]>>
               /\ loc[t].name = tool_mappings[route[t].tool]
    /\ (reply.kind # "none" /\ reply.route.tool \in DOMAIN tool_mappings)
            => LET rt == reply.route
                   P == tool_mappings[rt.tool]
               IN /\ rt.op = Mapped
                  /\ Len(rt.trace) = 1
                  /\ rt.trace[1].name = P
                  /\ ret.frame.op = "execute" /\ ret.frame.name = P
                  /\ IF IsRegistered(P)
                     THEN /\ Executed(rt) = {1}
                          /\ ret.frame.calls = 1
                          /\ reply = [Forward(ExecuteResult(ret.frame.out)) EXCEPT
                                        !.proc = reply.proc, !.route = rt]
                     ELSE /\ Executed(rt) = {}
                          /\ ret.frame.calls = 0
                          /\ Failed(reply, NotFound(P))

C12_Witness ==
    /\ reply.kind = "ok"
    /\ reply.success
    /\ reply.route.op = Mapped
    /\ reply.route.tool = "echo"
    /\ default_strategy = Broadcast
    /\ tool_mappings["echo"] = "b"
    /\ Matching("echo") = {"a"}
    /\ Executed(reply.route) = {1}
    /\ reply.route.trace[1].name = "b"

\* The step is caller t's call of route_request for tool (its first step).
Routes(t, tool) ==
    /\ pc[t] = "idle"
    /\ route[t] = NoRoute
    /\ \/ route'[t] # NoRoute /\ route'[t].tool = tool
       \/ reply'.proc = t /\ reply'.route.tool = tool

\* C13: route_request under the Direct strategy for a tool without a
\* tool_mappings entry fails with "Direct routing requires tool mapping" in its
\* first step, calls no provider and leaves both registry maps as they were.
C13_DirectRequiresMapping ==
    [][\A t \in Procs, tool \in Tools :
         (default_strategy = Direct /\ tool \notin DOMAIN tool_mappings
                                    /\ Routes(t, tool))
            => /\ Failed(reply', DirectRequiresMapping)
               /\ reply'.route.trace = <<>>
               /\ route'[t] = NoRoute
               /\ pc'[t] = "idle"
               /\ metadata' = metadata
               /\ services' = services]_vars

C13_Witness ==
    /\ Failed(reply, DirectRequiresMapping)
    /\ reply.route.tool = "echo"
    /\ default_strategy = Direct
    /\ DOMAIN tool_mappings = {"deploy"}
    /\ Matching("echo") = Names
    /\ metadata["a"].status = Error

\* C14: route_request under FirstMatch or Broadcast for a tool that has no
\* tool_mappings entry and that no Registration lists as a capability fails
\* with "No service found for tool" in its first step and calls no provider.
C14_NoProviderForTool ==
    [][\A t \in Procs, tool \in Tools :
         (default_strategy \in {FirstMatch, Broadcast}
             /\ tool \notin DOMAIN tool_mappings
             /\ (\A n \in DOMAIN metadata : tool \notin Range(metadata[n].capabilities))
             /\ Routes(t, tool))
            => /\ Failed(reply', NoServiceFound(tool))
               /\ reply'.route.trace = <<>>
               /\ route'[t] = NoRoute
               /\ pc'[t] = "idle"
               /\ metadata' = metadata]_vars

C14_Witness ==
    /\ Failed(reply, NoServiceFound("echo"))
    /\ reply.route.op = Broadcast
    /\ DOMAIN services = Names
    /\ Matching("echo") = {}
    /\ DOMAIN tool_mappings = {"deploy"}

\* C15: a FirstMatch route for an unmapped tool that some provider advertises
\* makes one execution, on the first name find_by_capability returned, which
\* advertises the tool, and returns that provider's outcome; the provider may
\* be in status Error.
C15_FirstMatchExecutesFirst ==
    /\ \A t \in Procs :
        route[t].op = FirstMatch
            => /\ route[t].tool \notin DOMAIN tool_mappings
               /\ Range(route[t].services) = Matching(route[t].tool)
               /\ route[t].services # <<>>
               /\ route[t].trace = <<>>
               /\ InFlight(t) => loc[t].name = route[t].services[1]
    /\ (reply.kind # "none" /\ reply.route.op = FirstMatch
                            /\ reply.route.services # <<>>)
            => LET rt == reply.route
                   n == rt.services[1]
               IN /\ Range(rt.services) = Matching(rt.tool)
                  /\ HasCapability(metadata[n], rt.tool)
                  /\ Len(rt.trace) = 1
                  /\ Executed(rt) = {1}
                  /\ rt.trace[1].name = n
                  /\ ret.frame.op = "execute"
                  /\ ret.frame.name = n
                  /\ ret.frame.calls = 1
                  /\ IF ret.frame.out.ok
                     THEN reply.kind = "ok" /\ reply.success = ret.frame.out.success
                     ELSE Failed(reply, ret.frame.out.err[1])

C15_Witness ==
    /\ reply.kind = "ok"
    /\ reply.success
    /\ reply.route.op = FirstMatch
    /\ Len(reply.route.services) = 2
    /\ ret.prev = Some(Error)
    /\ Executed(reply.route) = {1}
    /\ metadata[reply.route.services[2]].status = Error

\* C16: the FirstMatch tie-break is the registration order: a request that
\* several providers match is executed on the match that was registered first
\* (the handle with the lowest instance number), whatever order the registry's
\* map enumerates its entries in.
C16_FirstMatchEarliestRegistered ==
    (reply.kind # "none" /\ reply.route.op = FirstMatch
                         /\ Len(reply.route.trace) = 1)
        => \A m \in Matching(reply.route.tool) \cap DOMAIN services :
              services[reply.route.trace[1].name] <= services[m]

\* The executions of route rt that failed (returned an error) / that succeeded
\* (returned a result with success = true).
FailedRuns(rt) == {i \in DOMAIN rt.trace : rt.trace[i].kind = "err"}
GoodRuns(rt) == {i \in DOMAIN rt.trace : rt.trace[i].kind = "ok" /\ rt.trace[i].success}

\* A finished Broadcast route.
Broadcasted == reply.kind # "none" /\ reply.route.op = Broadcast

\* C17: a Broadcast route over two matching providers, one whose execute
\* failed and one whose execute succeeded, returns a result with success =
\* true, 2 entries in data.results and 1 entry in data.errors.
C17_BroadcastOneFailure ==
    (Broadcasted /\ Len(reply.route.trace) = 2
                 /\ Cardinality(FailedRuns(reply.route)) = 1
                 /\ Cardinality(GoodRuns(reply.route)) = 1)
        => /\ reply.kind = "ok"
           /\ reply.success
           /\ Len(reply.results) = 2
           /\ Len(reply.errors) = 1

\* C18: a Broadcast route that returns a result has success = true exactly
\* when some provider's execute returned a result with success = true.
C18_BroadcastSuccessIffAny ==
    (Broadcasted /\ reply.kind = "ok")
        => /\ reply.success <=> GoodRuns(reply.route) # {}
           /\ Len(reply.route.trace) = Len(reply.route.services)
           /\ Range(reply.route.services) = Matching(reply.route.tool)

C18_Witness ==
    /\ Broadcasted
    /\ reply.kind = "ok"
    /\ reply.success
    /\ Len(reply.route.trace) = 2
    /\ GoodRuns(reply.route) = {1}
    /\ FailedRuns(reply.route) = {}

\* s has sub as a contiguous part.
Contains(s, sub) ==
    \E k \in 0..Len(s) : k + Len(sub) <= Len(s) /\ SubSeq(s, k + 1, k + Len(sub)) = sub

\* C19: a Broadcast route all of whose executions failed returns an error, not
\* a result, and the error's message contains the message of every provider's
\* error, next to that provider's name.
C19_BroadcastAllFailed ==
    (Broadcasted /\ FailedRuns(reply.route) = DOMAIN reply.route.trace)
        => /\ reply.kind = "err"
           /\ Len(reply.route.trace) = Len(reply.route.services)
           /\ \A i \in DOMAIN reply.route.trace :
                LET run == reply.route.trace[i] IN
                /\ run.reached
                /\ Contains(to_string(reply.err[1]),
                            <<run.name, ":">> \o to_string(run.err[1]))

C19_Witness ==
    /\ Broadcasted
    /\ reply.kind = "err"
    /\ Len(reply.route.trace) = 2
    /\ reply.route.trace[1].err = Some(ProviderError("e1"))
    /\ reply.route.trace[2].err = Some(ProviderError("e2"))
    /\ to_string(reply.err[1]) =
         <<"All services failed:", reply.route.trace[1].name, ":", "e1", ",",
           reply.route.trace[2].name, ":", "e2">>

\* C20: every result a Broadcast route returns carries metadata with
\* routing_strategy "broadcast" and services_called = the number of providers
\* whose execute was called, the ones that failed included.
C20_BroadcastCountsInvoked ==
    (Broadcasted /\ reply.kind = "ok")
        => /\ reply.strategy = Some("broadcast")
           /\ reply.services_called = Cardinality(Executed(reply.route))

\* The names route rt has called registry.execute on, in the order of the calls.
Visited(rt) == [k \in DOMAIN rt.trace |-> rt.trace[k].name]

\* C21: route_broadcast executes on the matching providers one after another,
\* in the order find_by_capability returned them, each exactly once: the one
\* execution in flight is on the next name, a failed execution is followed by
\* the remaining ones, and every provider executed so far has added one entry
\* to all_results or one to errors.
C21_BroadcastEachOnce ==
    /\ \A t \in Procs :
        route[t].op = Broadcast
            => LET rt == route[t] IN
               /\ rt.i < Len(rt.services)
               /\ Visited(rt) = SubSeq(rt.services, 1, rt.i)
               /\ Executed(rt) = 1..rt.i
               /\ Len(rt.all_results) + Len(rt.errors) = rt.i
               /\ InFlight(t) => loc[t].op = "execute" /\ loc[t].name = Current(rt)
    /\ (Broadcasted /\ reply.route.services # <<>>)
            => LET rt == reply.route IN
               /\ Visited(rt) = rt.services
               /\ Range(rt.services) = Matching(rt.tool)
               /\ Len(rt.services) = Cardinality(Matching(rt.tool))
               /\ Executed(rt) = DOMAIN rt.services
               /\ Len(rt.all_results) + Len(rt.errors) = Len(rt.services)
               /\ Len(rt.errors) = Cardinality(FailedRuns(rt))

C21_Witness ==
    /\ Broadcasted
    /\ reply.kind = "ok"
    /\ Len(reply.route.services) = 2
    /\ FailedRuns(reply.route) = {1}
    /\ GoodRuns(reply.route) = {2}
    /\ Len(reply.results) = 1
    /\ Len(reply.errors) = 1

\* A request as the protocol defines it: a JSON object with a method, params
\* and a string or null id, within the size limit.
WellFormed(line) ==
    line.json /\ line.id.t \in {"string", "null"} /\ line.len <= MAX_MESSAGE_SIZE

\* On connection c the k-th line read is answered by the response r and by
\* nothing else, and the handler reads on after it: r is the k-th response
\* written, or it is the response being written, not marked as the last one,
\* or its write has failed.
Answered(c, k, r) ==
    LET h == conn[c] IN
    IF k <= Len(h.output) THEN h.output[k] = r
    ELSE /\ k = Len(h.got)
         /\ \/ h.st = "open" /\ h.hpc = "write" /\ h.pending = Some(r) /\ ~h.last
            \/ h.st = "ended" /\ h.how = "write error"

\* C22: a well-formed request for a method outside the method table gets
\* exactly one response, with the request's id, code -32601 and the message
\* "Method not found: <method>", and the handler goes on reading.
C22_UnknownMethodNotFound ==
    \A c \in Conns : \A k \in DOMAIN conn[c].got :
        LET line == conn[c].got[k] IN
        (WellFormed(line) /\ line.method \notin MethodTable(variant)) =>
            Answered(c, k, Failure(line.id, METHOD_NOT_FOUND,
                                   <<"Method", "not found", ":", line.method>>))

\* Connection c has been through a handler or is in one.
Serviced(c) == conn[c].got # <<>> \/ conn[c].output # <<>> \/ conn[c].how # "none"

\* C23: with MaxConnections permits at most MaxConnections handlers are
\* active; a connection that has not got a permit yet is neither ended nor
\* read from nor answered, and it gets its handler only in a step that starts
\* with fewer than MaxConnections active handlers.
C23_AtMostMaxConnections ==
    [][ /\ Cardinality(Handling) <= MaxConnections
        /\ \A c \in Conns :
               /\ conn[c].st \in {"backlog", "accepted"} =>
                      ~Serviced(c) /\ conn'[c].st \in {"backlog", "accepted", "open"}
               /\ (conn[c].st # "open" /\ conn'[c].st = "open") =>
                      /\ listener.pc = "acquire" /\ listener.stream = c
                      /\ Cardinality(Handling) < MaxConnections ]_vars

\* All permits are held by handlers that have answered, and one more client
\* has been accepted and has sent its first request, which nobody has read.
C23_Witness ==
    /\ Cardinality(Handling) = MaxConnections
    /\ \A c \in Handling : conn[c].output # <<>>
    /\ listener.pc = "acquire"
    /\ conn[listener.stream].st = "accepted"
    /\ conn[listener.stream].input # <<>>
    /\ ~Serviced(listener.stream)

\* C24: the permits in use are exactly the active handlers, whichever way
\* handlers have ended, so an acquire that waits while fewer than
\* MaxConnections handlers are active can complete, and under a fair
\* scheduler it does complete once a handler has ended.
C24_PermitsReturned ==
    /\ [](MaxConnections - semaphore = Cardinality(Handling))
    /\ []((listener.pc = "acquire" /\ Cardinality(Handling) < MaxConnections)
              => ENABLED Acquire)
    /\ \A c \in Conns :
           (listener.pc = "acquire" /\ listener.stream = c
               /\ Cardinality(Handling) < MaxConnections) ~> (conn[c].st = "open")

\* A handler has ended on a failed write and another on end-of-stream, both
\* permits are back, and the connection that had waited has its handler.
C24_Witness ==
    /\ \E c \in Conns : conn[c].how = "write error"
    /\ \E c \in Conns : conn[c].how \in {"eof", "read error"}
    /\ Cardinality(Handling) = 1
    /\ semaphore = MaxConnections - 1
    /\ \A c \in Conns : conn[c].st \in {"open", "ended"}

\* C25: when the read timeout passes, the handler of server.rs writes the
\* timeout response as its last one and returns after it; the timeout
\* response is the one response beyond those to the lines read, and a
\* connection closed by the timeout has nothing read or written afterwards.
C25_TimeoutIsTerminal ==
    [][\A c \in Conns : LET h == conn[c] IN
          /\ (h.hpc = "write" /\ h.pending = Some(TimedOut)) =>
                 /\ h.last /\ Len(h.output) = Len(h.got)
                 /\ conn'[c].got = h.got
                 /\ \/ conn'[c].st = "ended"
                    \/ conn'[c].hpc = "write" /\ conn'[c].output = h.output
          /\ h.how = "timeout" =>
                 /\ h.st = "ended"
                 /\ Len(h.output) = Len(h.got) + 1
                 /\ {k \in DOMAIN h.output : h.output[k] = TimedOut} = {Len(h.output)}
                 /\ conn'[c].got = h.got /\ conn'[c].output = h.output
                 /\ conn'[c].st = "ended" ]_vars

\* The client was answered once, fell silent, got the timeout response and was
\* closed, and the line it sent after that stays unread.
C25_Witness ==
    /\ variant = V1
    /\ conn[1].how = "timeout" /\ conn[1].st = "ended"
    /\ Len(conn[1].got) = 1 /\ Len(conn[1].output) = 2
    /\ conn[1].input # <<>>

\* C26: a line longer than MAX_MESSAGE_SIZE is answered with one
\* invalid-request error (-32600) and is the last line the handler reads: the
\* connection is closed once that response is written.
C26_OversizeCloses ==
    \A c \in Conns : \A k \in DOMAIN conn[c].got :
        conn[c].got[k].len > MAX_MESSAGE_SIZE =>
            /\ k = Len(conn[c].got)
            /\ k <= Len(conn[c].output) =>
                   /\ conn[c].output[k] = Failure(conn[c].output[k].id, INVALID_REQUEST, <<"Invalid request">>)
                   /\ conn[c].st = "ended"

\* On connection c the k-th line read is answered by one response with the
\* given error code, and the handler reads on after it.
AnsweredWithCode(c, k, code) ==
    LET h == conn[c] IN
    IF k <= Len(h.output) THEN h.output[k].code = code
    ELSE /\ k = Len(h.got)
         /\ \/ /\ h.st = "open" /\ h.hpc = "write" /\ ~h.last
               /\ h.pending # None /\ h.pending[1].code = code
            \/ h.st = "ended" /\ h.how = "write error"

\* C27: a line that is not JSON gets exactly one response, a parse error
\* (-32700), and the handler goes on reading and answering.
C27_ParseErrorKeepsOpen ==
    \A c \in Conns : \A k \in DOMAIN conn[c].got :
        (~conn[c].got[k].json /\ conn[c].got[k].len <= MAX_MESSAGE_SIZE) =>
            AnsweredWithCode(c, k, PARSE_ERROR)

\* server_v2.rs has answered a line that is not JSON with a parse error and
\* the request after it with a result.
C27_Witness ==
    /\ variant = V2
    /\ Len(conn[1].got) = 2 /\ Len(conn[1].output) = 2
    /\ ~conn[1].got[1].json /\ conn[1].output[1].code = PARSE_ERROR
    /\ WellFormed(conn[1].got[2]) /\ conn[1].output[2] = Success(conn[1].got[2].id)

\* The number of response lines connection c must hold for the lines its
\* handler has read: all of them answered while it is about to read or has
\* ended on its read, the last one still unanswered while its response is
\* being written or when that write failed, and one line more after the
\* timeout response of server.rs.
Due(c) ==
    LET h == conn[c] IN
    CASE h.st # "open" /\ h.st # "ended" -> 0
      [] h.st = "open" /\ h.hpc = "read" -> Len(h.got)
      [] h.st = "open" /\ h.hpc = "write" -> IF h.last THEN Len(h.got) ELSE Len(h.got) - 1
      [] h.st = "ended" /\ h.how = "timeout" -> Len(h.got) + 1
      [] h.st = "ended" /\ h.how = "write error" -> Len(h.output)
      [] OTHER -> Len(h.got)

\* C28: on every connection the k-th response line is the response to the
\* k-th line read, every line read has its one response before the next line
\* is read, and the only line beyond those is the timeout response.
C28_ResponsesInRequestOrder ==
    \A c \in Conns : LET h == conn[c] IN
        /\ Len(h.output) = Due(c)
        /\ h.how = "write error" => Len(h.output) \in {Len(h.got) - 1, Len(h.got)}
        /\ \A k \in DOMAIN h.output :
               IF k <= Len(h.got)
               THEN \E o \in HandlerOutcomes(variant) : h.output[k] = ResponseTo(h.got[k], o)
               ELSE h.output[k] = TimedOut /\ h.how = "timeout"

\* Two different requests have been read and answered, each at its place.
C28_Witness ==
    /\ Len(conn[1].got) = 2 /\ Len(conn[1].output) = 2
    /\ WellFormed(conn[1].got[1]) /\ WellFormed(conn[1].got[2])
    /\ conn[1].got[1].id # conn[1].got[2].id
    /\ conn[1].output[1].id = conn[1].got[1].id
    /\ conn[1].output[2].id = conn[1].got[2].id
    /\ conn[1].st = "open" /\ conn[1].hpc = "read"

\* server.rs parses a line only if it is within the size limit and has a
\* string id; server_v2.rs parses every JSON request.
Parsed(line) ==
    /\ line.json
    /\ variant = V1 => line.id.t = "string" /\ line.len <= MAX_MESSAGE_SIZE

\* C29: the response to a parsed request carries that request's id, and the
\* response to a line that could not be parsed carries the null id.
C29_ResponseCarriesRequestId ==
    \A c \in Conns : \A k \in DOMAIN conn[c].got \cap DOMAIN conn[c].output :
        conn[c].output[k].id =
            IF Parsed(conn[c].got[k]) THEN conn[c].got[k].id ELSE Null

\* C30: run_server stays in its accept loop, whatever accept calls and
\* handlers have failed.
C30_AcceptLoopRuns == listener.pc \in {"accept", "acquire"}

\* Caller t is inside a status update: it has been granted the metadata write
\* guard for the update of loc[t].name and has not dropped it yet.
Updating(t) == pc[t] \in {"exec_status", "exec_error", "hc_write"}

\* C31: while the status update of one provider is being applied, another
\* caller can read the Registration of a different provider, and can start the
\* status update of a different provider, without waiting.
C31_UpdateDoesNotBlockOthers ==
    \A t \in Procs : \A u \in Procs \ {t} :
        Updating(t) =>
            /\ pc[u] = "idle" =>
                   \A n \in DOMAIN metadata \ {loc[t].name} :
                       ENABLED (GetStatus(u, n) /\ Quiet(u))
            /\ (pc[u] = "exec_update" /\ loc[u].name # loc[t].name) =>
                   ENABLED (ExecuteLock(u) /\ Quiet(u))

\* The status and last error execute writes for provider outcome o.
Written(o) ==
    IF o.ok THEN <<Active, None>> ELSE <<Error, Some(to_string(o.err[1]))>>

StatusPair(reg) == <<reg.status, reg.last_error>>

\* C32: while one caller applies its status update no other caller changes or
\* takes over the Registration map; when an execute has applied its update the
\* Registration holds exactly the pair that call wrote; and whenever no update
\* is being applied every Registration is Active without an error or Error
\* with one.
C32_StatusUpdateAtomic ==
    [][ /\ \A t \in Procs :
               /\ (Updating(t) /\ pc'[t] = pc[t]) =>
                      /\ metadata' = metadata
                      /\ \A u \in Procs \ {t} :
                             pc'[u] \notin {"exec_status", "exec_error", "hc_write"}
               /\ (pc[t] = "exec_error" /\ pc'[t] = "idle"
                       /\ loc[t].name \in DOMAIN metadata) =>
                      StatusPair(metadata'[loc[t].name]) = Written(loc[t].out)
        /\ (\A t \in Procs : pc'[t] \notin {"exec_status", "exec_error", "hc_write"}) =>
               \A n \in DOMAIN metadata' :
                   \/ StatusPair(metadata'[n]) = <<Active, None>>
                   \/ metadata'[n].status = Error /\ metadata'[n].last_error # None ]_vars

\* Two executes on the same provider have both returned from it, one with an
\* error and one with a result: the first is between its two writes and the
\* second waits for the guard.
C32_Witness ==
    /\ pc[1] = "exec_error" /\ pc[2] = "exec_update"
    /\ loc[1].name = loc[2].name
    /\ ~loc[1].out.ok /\ loc[2].out.ok /\ loc[2].out.success
    /\ metadata[loc[1].name].status = Error
    /\ metadata[loc[1].name].last_error = None

\* The step belongs to an execute, a run_health_checks or a route_request of
\* caller t.
Uses(t) ==
    \/ pc[t] \in {"exec_call", "exec_update", "hc_call", "hc_update"}
    \/ pc'[t] \in {"exec_call", "hc_call"}
    \/ ret'.proc = t /\ ret'.frame.op \in {"execute", "run_health_checks"}
    \/ route[t] # NoRoute \/ route'[t] # NoRoute \/ reply'.proc = t

\* C33: a step of execute, run_health_checks or route_request keeps the set of
\* Registrations, keeps every Registration's name, capability list and
\* registration time, and changes no field of a Registration other than the
\* one of the provider it has called.
C33_RegistrationFrame ==
    [][\A t \in Procs : Uses(t) =>
          /\ DOMAIN metadata' = DOMAIN metadata
          /\ DOMAIN services' = DOMAIN services
          /\ \A n \in DOMAIN metadata :
                 /\ metadata'[n].name = metadata[n].name
                 /\ metadata'[n].capabilities = metadata[n].capabilities
                 /\ metadata'[n].registered_at = metadata[n].registered_at
                 /\ n # loc[t].name => metadata'[n] = metadata[n] ]_vars

\* A health check made after the registrations has failed for one of two
\* registered providers, which keeps its two capabilities and its time.
C33_Witness ==
    /\ DOMAIN metadata = Names
    /\ ret.kind = "ok" /\ ret.frame.op = "run_health_checks"
    /\ \E n \in Names :
           /\ metadata[n].status = Error
           /\ metadata[n].last_health_check = Some(MaxTime + 1)
           /\ metadata[n].registered_at = 0
           /\ metadata[n].capabilities = <<"echo", "deploy">>

\* C34: when the provider's execute has returned a Result (Ok), with success
\* true or false, and the provider is registered, registry.execute leaves its
\* Registration Active with no last error.
C34_OkResultSetsActive ==
    [][\A t \in Procs :
          (pc[t] = "exec_update" /\ pc'[t] = "idle" /\ loc[t].out.ok
              /\ loc[t].name \in DOMAIN metadata) =>
              /\ metadata'[loc[t].name].status = Active
              /\ metadata'[loc[t].name].last_error = None ]_vars

\* C35: a register call that returns success is the only one to do so for its
\* name: when it returns, no Registration of that name was there before its
\* own, and the stored handle is the provider it was given.
C35_OneRegisterWins ==
    [][\A t \in Procs :
          (pc[t] = "reg_meta" /\ pc'[t] = "idle" /\ ret'.kind = "ok") =>
              /\ loc[t].name \notin DOMAIN metadata
              /\ services'[loc[t].name] = loc[t].inst ]_vars

\* C36: whenever no registry operation is in flight, the provider map and the
\* Registration map hold the same names, also after register and unregister
\* calls for one name ran concurrently.
C36_MapsAgreeAtRest ==
    (\A t \in Procs : pc[t] = "idle") => DOMAIN services = DOMAIN metadata

\* C37: the status of a Registration is only updated by the outcome of a call
\* on the provider instance it was created for: an execute or health check
\* that took its handle before the name was registered again leaves the new
\* Registration alone.
C37_UpdateOnlyByOwnInstance ==
    [][\A t \in Procs : \A n \in DOMAIN metadata :
          ( /\ pc[t] \in {"exec_update", "hc_update"}
            /\ pc'[t] # pc[t]
            /\ n \in DOMAIN metadata'
            /\ metadata'[n] # metadata[n] ) =>
              ~(n \in DOMAIN services /\ services[n] # loc[t].inst) ]_vars

\* C38: no registry operation waits for one of the two locks while it holds
\* a guard: a caller that holds a guard can always take its next step, and a
\* caller that cannot take its next step waits for a guard another caller
\* holds, so some call in flight can always proceed and none deadlocks.
C38_NoWaitWhileHolding ==
    \A t \in Procs :
        /\ Holds(t) # {} => ENABLED LocksStep(t)
        /\ pc[t] # "idle" =>
               \/ ENABLED LocksStep(t)
               \/ \E u \in Procs \ {t} : Holds(u) # {} /\ ENABLED LocksStep(u)

C38_Witness ==
    /\ Holds(1) # {}
    /\ pc[2] \in {"exec_update", "hc_update"}
    /\ ~ENABLED LocksStep(2)

\* C39: in server_v2.rs a request for a method of the method table is never
\* answered with method-not-found (-32601): it gets its result, or, when its
\* handler fails, also with "project not found", an internal error (-32603)
\* or a code of the application's own.
C39_KnownMethodNeverNotFound ==
    \A c \in Conns : \A k \in DOMAIN conn[c].output :
        LET line == conn[c].got[k] IN
        (variant = V2 /\ ParsesV2(line) /\ line.method \in MethodTable(V2)) =>
            conn[c].output[k].code # METHOD_NOT_FOUND

\* Connection c has a handler that waits for a line from a client that has
\* neither sent one nor closed.
Idle(c) ==
    /\ conn[c].st = "open" /\ conn[c].hpc = "read"
    /\ conn[c].input = <<>> /\ ~conn[c].eof

\* A step the handler of c takes on its own account: it reads what the client
\* has sent or sees it closed, writes a response, or runs into its timeout.
OwnStep(c) ==
    \/ HandlerRead(c, CallOk(TRUE))
    \/ HandlerEof(c)
    \/ HandlerWrite(c)
    \/ HandlerTimeout(c)

\* C40: the admission-controlled server closes an idle connection by itself:
\* the handler of an idle connection has a step of its own that ends it, so
\* when idle connections hold every permit and an accepted connection waits
\* for one, a handler can still end and return its permit.
C40_IdleConnectionClosed ==
    /\ \A c \in Conns : Idle(c) => ENABLED OwnStep(c)
    /\ (listener.pc = "acquire" /\ semaphore = 0 /\ \A c \in Handling : Idle(c)) =>
           \E c \in Handling : ENABLED OwnStep(c)

====
